---- MODULE Spec2Model ----
(***************************************************************************)
(* A model of the Max Bot API client (src/api.py) and of its entity codec  *)
(* (src/models.py).                                                        *)
(*                                                                         *)
(* Python values are tagged records, so that any two of them can be        *)
(* compared: None, bool, int, float, str, list, dict, dataclass instances  *)
(* ("obj") and raised exceptions ("raise").  A dict is a function whose    *)
(* DOMAIN is the set of keys present.  Strings the code only stores and    *)
(* compares are TLA+ strings; strings the code looks into (paths, URLs,    *)
(* content types) are sequences of tokens.  Floats are counted in tenths.  *)
(***************************************************************************)
EXTENDS Integers, Sequences, FiniteSets, TLC

VARIABLES
    access_token,   \* MaxBotAPI._access_token
    base_url,       \* MaxBotAPI._base_url (token sequence)
    timeout,        \* MaxBotAPI._timeout
    pc,             \* "idle": no request in progress; "waiting": inside session.request
    call,           \* arguments of the current/last _request invocation
    sent,           \* what _request handed to session.request
    resp,           \* the response the transport returned
    outcome,        \* what _request returned or raised
    attempts,       \* calls of session.request made by the current/last _request
    use_models,     \* MaxBotAPI._use_models
    op,             \* the public operation in progress and its as_models argument
    result,         \* what the public operation returned or raised
    last_marker,    \* the caller's side: the marker of the last mapping returned
    cpc,            \* codec run: "start", "mid", "done" ("off" in the client spec)
    cdir,           \* codec run: "ede" (encode, decode), "ded" (decode, encode)
    ccls,           \* codec run: the class whose encoder and decoder are applied
    cin,            \* codec run: the input value
    cmid,           \* codec run: the value after the first step
    cout            \* codec run: the value after the second step

clientVars == <<access_token, base_url, timeout, pc, call, sent, resp, outcome,
                attempts, use_models, op, result, last_marker>>
codecVars == <<cpc, cdir, ccls, cin, cmid, cout>>
vars == <<access_token, base_url, timeout, pc, call, sent, resp, outcome,
          attempts, use_models, op, result, last_marker,
          cpc, cdir, ccls, cin, cmid, cout>>

----------------------------------------------------------------------------
(* Python values *)

PNone == [t |-> "None"]
PBool(b) == [t |-> "bool", v |-> b]
PInt(n) == [t |-> "int", v |-> n]
PFloat(n) == [t |-> "float", v |-> n]
PStr(s) == [t |-> "str", v |-> s]
PList(s) == [t |-> "list", v |-> s]
PDict(m) == [t |-> "dict", v |-> m]
PObj(c, f) == [t |-> "obj", cls |-> c, v |-> f]
Raise(e, a) == [t |-> "raise", exc |-> e, arg |-> a]

EmptyMap == [k \in {} |-> PNone]

IsRaise(x) == x.t = "raise"

\* isinstance(x, Mapping)
IsMapping(x) == x.t = "dict"

\* bool(x): the truth value Python gives x
Truthy(x) ==
    CASE x.t = "None" -> FALSE
      [] x.t = "bool" -> x.v
      [] x.t = "int" -> x.v # 0
      [] x.t = "float" -> x.v # 0
      [] x.t = "str" -> x.v # ""
      [] x.t = "list" -> x.v # <<>>
      [] x.t = "dict" -> DOMAIN x.v # {}
      [] OTHER -> TRUE

Subscript_defaulting(d, k) ==
    IF d.t = "dict"
    THEN IF k \in DOMAIN d.v THEN d.v[k] ELSE PNone
    ELSE Raise("TypeError", "subscript")

\* d[k]
Subscript(d, k) ==
    IF d.t = "dict"
    THEN IF k \in DOMAIN d.v THEN d.v[k] ELSE Raise("KeyError", k)
    ELSE Raise("TypeError", "subscript")

\* d.get(k, default)
GetDefault(d, k, default) ==
    IF d.t = "dict"
    THEN IF k \in DOMAIN d.v THEN d.v[k] ELSE default
    ELSE Raise("AttributeError", "get")

\* d.get(k)
Get(d, k) == GetDefault(d, k, PNone)

\* the dict m with m[k] = x set (m is the function under a PDict)
SetItem(m, k, x) == [j \in DOMAIN m \cup {k} |-> IF j = k THEN x ELSE m[j]]

\* m.update(n): every key of n written over m
DictUpdate(m, n) == [j \in DOMAIN m \cup DOMAIN n |-> IF j \in DOMAIN n THEN n[j] ELSE m[j]]

\* the first raised exception among the values of seq, in order; ok if none
RECURSIVE FirstRaise(_, _)
FirstRaise(seq, ok) ==
    IF seq = <<>> THEN ok
    ELSE IF IsRaise(Head(seq)) THEN Head(seq)
    ELSE FirstRaise(Tail(seq), ok)

----------------------------------------------------------------------------
(* The request executor: MaxBotAPI.__init__, _build_url, _request *)

DEFAULT_BASE_URL == <<"https://platform-api.max.ru">>

\* s.rstrip("/") on a token sequence
RECURSIVE rstrip(_)
rstrip(s) ==
    IF s # <<>> /\ s[Len(s)] = "/" THEN rstrip(SubSeq(s, 1, Len(s) - 1)) ELSE s

\* path.startswith("/")
startswith_sep(path) == path # <<>> /\ path[1] = "/"

_build_url_prepend(path) == base_url \o <<"/">> \o path

_build_url(path) ==
    base_url \o (IF ~startswith_sep(path) THEN <<"/">> \o path ELSE path)

\* method.upper()
upper(m) ==
    CASE m = "get" -> "GET"
      [] m = "post" -> "POST"
      [] m = "Put" -> "PUT"
      [] OTHER -> m

build_query_no_token(params) ==
    PDict(IF Truthy(params) THEN params.v ELSE EmptyMap)

\* query = {}; if params: query.update(params); query.setdefault("access_token", token)
build_query(params) ==
    LET q == IF Truthy(params) THEN params.v ELSE EmptyMap
    IN  PDict(IF "access_token" \in DOMAIN q THEN q ELSE SetItem(q, "access_token", access_token))

resolve_timeout_client_first(t) == IF timeout # PNone THEN timeout ELSE t

\* timeout if timeout is not None else self._timeout
resolve_timeout(t) == IF t # PNone THEN t ELSE timeout

\* the keyword arguments of self._session.request(...)
transport_request(c) ==
    [method |-> upper(c.method),
     url |-> _build_url(c.path),
     params |-> build_query(c.params),
     json |-> c.json_body,
     timeout |-> resolve_timeout(c.timeout)]

\* response bodies, and what json.loads makes of each
TextOk == "ok"
TextEmpty == ""
TextQuotedOk == "\"ok\""
TextNull == "null"
TextList == "[]"
TextEmptyObj == "{}"
TextZero == "0"
TextFalse == "false"
TextEmptyString == "\"\""
TextErrCode == "{\"code\":\"too_many_requests\"}"
TextErrFull == "{\"code\":\"chat_not_found\",\"message\":\"no such chat\"}"

\* bodies of the list responses
TextMarkerOnly == "{\"marker\":17}"
TextUpdates2 ==
    "{\"updates\":[{\"update_type\":\"message_created\",\"timestamp\":1000,\"chat_id\":5},{\"update_type\":\"bot_started\",\"timestamp\":2000}],\"marker\":17}"
TextUpdatesEmpty == "{\"updates\":[],\"marker\":17}"
TextUpdatesNull == "{\"updates\":null}"
TextChats2 ==
    "{\"chats\":[{\"chat_id\":5,\"type\":\"chat\",\"status\":\"active\",\"last_event_time\":1000,\"participants_count\":2,\"is_public\":false},{\"chat_id\":6,\"type\":\"dialog\",\"status\":\"active\",\"last_event_time\":2000,\"participants_count\":2,\"is_public\":false}],\"marker\":17}"
TextChatsEmpty == "{\"chats\":[]}"
TextChatsNull == "{\"chats\":null,\"marker\":null}"
TextMembers2 ==
    "{\"members\":[{\"user_id\":7,\"first_name\":\"Ann\",\"is_bot\":false,\"last_activity_time\":1000,\"last_access_time\":3000,\"is_owner\":true,\"is_admin\":true,\"join_time\":500},{\"user_id\":8,\"first_name\":\"Bob\",\"is_bot\":false,\"last_activity_time\":2000,\"last_access_time\":3000,\"is_owner\":false,\"is_admin\":false,\"join_time\":600}],\"marker\":17}"
TextMembersEmpty == "{\"members\":[]}"
TextMembersNull == "{\"members\":null}"
TextAdmins2 ==
    "{\"admins\":[{\"user_id\":7,\"permissions\":[\"write\"]},{\"user_id\":8}],\"marker\":17}"
TextAdminsEmpty == "{\"admins\":[]}"
TextAdminsNull == "{\"admins\":null}"

TextMessages2 ==
    "{\"messages\":[{\"recipient\":{\"chat_type\":\"chat\",\"chat_id\":5},\"body\":{\"mid\":\"m1\",\"seq\":1,\"text\":\"hi\"},\"timestamp\":1000},{\"recipient\":{\"chat_type\":\"chat\",\"chat_id\":5},\"body\":{\"mid\":\"m2\",\"seq\":2,\"text\":\"hi\"},\"timestamp\":2000}]}"
TextMessagesEmpty == "{\"messages\":[]}"
TextSent ==
    "{\"message\":{\"recipient\":{\"chat_type\":\"chat\",\"chat_id\":5},\"body\":{\"mid\":\"m3\",\"seq\":3,\"text\":\"hi\"},\"timestamp\":3000}}"

MessageJson(mid, seq, time) ==
    PDict([recipient |-> PDict([chat_type |-> PStr("chat"), chat_id |-> PInt(5)]),
           body |-> PDict([mid |-> PStr(mid), seq |-> PInt(seq), text |-> PStr("hi")]),
           timestamp |-> PInt(time)])

ChatJson(id, type, time) ==
    PDict([chat_id |-> PInt(id), type |-> PStr(type), status |-> PStr("active"),
           last_event_time |-> PInt(time), participants_count |-> PInt(2),
           is_public |-> PBool(FALSE)])

MemberJson(id, name, time, owner, join) ==
    PDict([user_id |-> PInt(id), first_name |-> PStr(name), is_bot |-> PBool(FALSE),
           last_activity_time |-> PInt(time), last_access_time |-> PInt(3000),
           is_owner |-> PBool(owner), is_admin |-> PBool(owner),
           join_time |-> PInt(join)])

Texts == {TextOk, TextEmpty, TextQuotedOk, TextNull, TextList, TextEmptyObj,
          TextZero, TextFalse, TextEmptyString,
          TextErrCode, TextErrFull}

\* resp.json(): the parsed value, or ValueError when the text is not JSON
json(text) ==
    CASE text = TextQuotedOk -> PStr("ok")
      [] text = TextNull -> PNone
      [] text = TextList -> PList(<<>>)
      [] text = TextEmptyObj -> PDict(EmptyMap)
      [] text = TextZero -> PInt(0)
      [] text = TextFalse -> PBool(FALSE)
      [] text = TextEmptyString -> PStr("")
      [] text = TextErrCode -> PDict([code |-> PStr("too_many_requests")])
      [] text = TextErrFull ->
            PDict([code |-> PStr("chat_not_found"), message |-> PStr("no such chat")])
      [] text = TextMarkerOnly -> PDict([marker |-> PInt(17)])
      [] text = TextUpdates2 ->
            PDict([updates |->
                       PList(<<PDict([update_type |-> PStr("message_created"),
                                      timestamp |-> PInt(1000), chat_id |-> PInt(5)]),
                               PDict([update_type |-> PStr("bot_started"),
                                      timestamp |-> PInt(2000)])>>),
                   marker |-> PInt(17)])
      [] text = TextUpdatesEmpty -> PDict([updates |-> PList(<<>>), marker |-> PInt(17)])
      [] text = TextUpdatesNull -> PDict([updates |-> PNone])
      [] text = TextChats2 ->
            PDict([chats |-> PList(<<ChatJson(5, "chat", 1000), ChatJson(6, "dialog", 2000)>>),
                   marker |-> PInt(17)])
      [] text = TextChatsEmpty -> PDict([chats |-> PList(<<>>)])
      [] text = TextChatsNull -> PDict([chats |-> PNone, marker |-> PNone])
      [] text = TextMembers2 ->
            PDict([members |-> PList(<<MemberJson(7, "Ann", 1000, TRUE, 500),
                                       MemberJson(8, "Bob", 2000, FALSE, 600)>>),
                   marker |-> PInt(17)])
      [] text = TextMembersEmpty -> PDict([members |-> PList(<<>>)])
      [] text = TextMembersNull -> PDict([members |-> PNone])
      [] text = TextAdmins2 ->
            PDict([admins |-> PList(<<PDict([user_id |-> PInt(7),
                                             permissions |-> PList(<<PStr("write")>>)]),
                                      PDict([user_id |-> PInt(8)])>>),
                   marker |-> PInt(17)])
      [] text = TextAdminsEmpty -> PDict([admins |-> PList(<<>>)])
      [] text = TextAdminsNull -> PDict([admins |-> PNone])
      [] text = TextMessages2 ->
            PDict([messages |-> PList(<<MessageJson("m1", 1, 1000), MessageJson("m2", 2, 2000)>>)])
      [] text = TextMessagesEmpty -> PDict([messages |-> PList(<<>>)])
      [] text = TextSent -> PDict([message |-> MessageJson("m3", 3, 3000)])
      [] OTHER -> Raise("ValueError", "json")

\* resp.headers.get("Content-Type", "")
content_type(r) ==
    IF "Content-Type" \in DOMAIN r.headers THEN r.headers["Content-Type"] ELSE <<>>

\* "application/json" in content_type
is_json_always(ct) == TRUE

is_json(ct) == \E i \in DOMAIN ct : ct[i] = "application/json"

\* the try/except around resp.json(): a parse failure leaves data = None
parse_data_strict(r) ==
    IF is_json(content_type(r)) THEN json(r.text) ELSE PNone

parse_data(r) ==
    IF is_json(content_type(r))
    THEN IF IsRaise(json(r.text)) THEN PNone ELSE json(r.text)
    ELSE PNone

\* resp.ok: requests reports every status outside 400..599 as ok
ok_5xx_only(status) == ~(500 <= status /\ status < 600)

ok(status) == ~(400 <= status /\ status < 600)

\* raise MaxAPIError(status_code=..., error_code=..., message=..., details=...)
api_error_raw_details(status, data) ==
    [t |-> "raise", exc |-> "MaxAPIError",
     status_code |-> status,
     error_code |-> IF IsMapping(data) THEN Get(data, "code") ELSE PNone,
     message |-> IF IsMapping(data) THEN Get(data, "message") ELSE PNone,
     details |-> data]

api_error(status, data) ==
    [t |-> "raise", exc |-> "MaxAPIError",
     status_code |-> status,
     error_code |-> IF IsMapping(data) THEN Get(data, "code") ELSE PNone,
     message |-> IF IsMapping(data) THEN Get(data, "message") ELSE PNone,
     details |-> IF IsMapping(data) THEN data ELSE PNone]

request_result_truthy(r) ==
    LET data == parse_data(r)
    IN  IF IsRaise(data) THEN data
        ELSE IF ~ok(r.status) THEN api_error(r.status, data)
        ELSE IF Truthy(data) THEN data ELSE PStr(r.text)

\* _request after session.request returned r
request_result(r) ==
    LET data == parse_data(r)
    IN  IF IsRaise(data) THEN data
        ELSE IF ~ok(r.status) THEN api_error(r.status, data)
        ELSE IF data # PNone THEN data ELSE PStr(r.text)

----------------------------------------------------------------------------
(* Inputs of the request executor *)

Token == PStr("tok")
BaseUrls == {DEFAULT_BASE_URL, DEFAULT_BASE_URL \o <<"/">>}
ClientTimeouts == {PNone, PFloat(100)}

Methods == {"get", "POST"}
Paths == {<<"/", "me">>, <<"messages">>}
ParamSets ==
    {PNone,
     PDict(EmptyMap),
     PDict([count |-> PInt(50)]),
     PDict([access_token |-> PStr("other"), count |-> PInt(50)])}
JsonBodies == {PNone, PDict([text |-> PStr("hi")])}
CallTimeouts == {PNone, PFloat(0), PFloat(50)}

Calls ==
    [method : Methods, path : Paths, params : ParamSets,
     json_body : JsonBodies, timeout : CallTimeouts]

Statuses == {200, 204, 304, 404, 500}
HeaderSets ==
    {EmptyMap,
     [k \in {"Content-Type"} |-> <<"text/plain">>],
     [k \in {"Content-Type"} |-> <<"application/json">>],
     [k \in {"Content-Type"} |-> <<"application/json", "; charset=utf-8">>],
     [k \in {"Content-Type"} |-> <<"application/problem+json">>]}
Responses == [status : Statuses, headers : HeaderSets, text : Texts]

TransportErrors == {"Timeout", "ConnectionError"}

NoCall == [method |-> "", path |-> <<>>, params |-> PNone,
           json_body |-> PNone, timeout |-> PNone]
NoRequest == [method |-> "", url |-> <<>>, params |-> PNone,
              json |-> PNone, timeout |-> PNone]
NoResponse == [status |-> 0, headers |-> EmptyMap, text |-> ""]
NoOutcome == [t |-> "none"]
NoOp == [name |-> "_request", as_models |-> PNone, args |-> EmptyMap]

----------------------------------------------------------------------------
(* The client as a state machine *)

ClientInit ==
    /\ access_token = Token
    /\ \E b \in BaseUrls : base_url = rstrip(b)
    /\ timeout \in ClientTimeouts
    /\ pc = "idle"
    /\ call = NoCall
    /\ sent = NoRequest
    /\ resp = NoResponse
    /\ outcome = NoOutcome
    /\ attempts = 0
    /\ op = NoOp
    /\ result = NoOutcome
    /\ last_marker = PNone

CodecOff ==
    /\ cpc = "off"
    /\ cdir = ""
    /\ ccls = ""
    /\ cin = PNone
    /\ cmid = PNone
    /\ cout = PNone

\* _request up to and including the call of session.request
RequestSend ==
    /\ pc = "idle"
    /\ \E c \in Calls :
        /\ call' = c
        /\ sent' = transport_request(c)
    /\ pc' = "waiting"
    /\ attempts' = 1
    /\ op' = NoOp
    /\ resp' = NoResponse
    /\ outcome' = NoOutcome
    /\ result' = NoOutcome
    /\ UNCHANGED <<access_token, base_url, timeout, use_models, last_marker>>
    /\ UNCHANGED codecVars

\* a client that keeps the timeout of the last call as its own
RequestReceive_adopts_timeout ==
    /\ pc = "waiting"
    /\ op = NoOp
    /\ \E r \in Responses :
        /\ resp' = r
        /\ outcome' = request_result(r)
        /\ result' = request_result(r)
    /\ pc' = "idle"
    /\ timeout' = sent.timeout
    /\ UNCHANGED <<access_token, base_url, call, sent, attempts, use_models, op,
                   last_marker>>
    /\ UNCHANGED codecVars

\* session.request returns a response; _request classifies it
RequestReceive ==
    /\ pc = "waiting"
    /\ op = NoOp
    /\ \E r \in Responses :
        /\ resp' = r
        /\ outcome' = request_result(r)
        /\ result' = request_result(r)
    /\ pc' = "idle"
    /\ UNCHANGED <<access_token, base_url, timeout, call, sent, attempts, use_models, op,
                   last_marker>>
    /\ UNCHANGED codecVars

transport_failure_wrapped(e) == api_error(0, PNone)

\* session.request raised e: no except clause stands between it and the caller
transport_failure(e) == Raise(e, "transport")

\* a client that calls session.request again when it raised
RequestTransportFails_retry ==
    /\ pc = "waiting"
    /\ attempts' = attempts + 1
    /\ UNCHANGED <<access_token, base_url, timeout, pc, call, sent, resp, outcome,
                   use_models, op, result, last_marker>>
    /\ UNCHANGED codecVars

\* session.request raises: the exception leaves _request, and the public
\* operation that called it, as it is
RequestTransportFails ==
    /\ pc = "waiting"
    /\ \E e \in TransportErrors :
        /\ outcome' = transport_failure(e)
        /\ result' = transport_failure(e)
    /\ resp' = NoResponse
    /\ pc' = "idle"
    /\ UNCHANGED <<access_token, base_url, timeout, call, sent, attempts, use_models, op,
                   last_marker>>
    /\ UNCHANGED codecVars

\* the client of the request executor is built with the default use_models
Init == ClientInit /\ use_models = FALSE /\ CodecOff

Next == RequestSend \/ RequestReceive \/ RequestTransportFails

Spec == Init /\ [][Next]_vars

----------------------------------------------------------------------------
(* The entity codec (src/models.py): dataclasses *)
(*                                                                         *)
(* Each class statement is modelled on its own: @dataclass builds __init__ *)
(* from the fields of the bases (in order) followed by the class's own     *)
(* fields, and raises TypeError when a field without a default follows a   *)
(* field with one.  A class whose statement raises has no instances.       *)

Field(n, d) == [name |-> n, has_default |-> d]

User_fields ==
    <<Field("user_id", FALSE), Field("first_name", FALSE), Field("last_name", FALSE),
      Field("username", FALSE), Field("is_bot", FALSE),
      Field("last_activity_time", FALSE), Field("name", TRUE)>>

UserWithPhoto_fields ==
    User_fields \o
    <<Field("description", TRUE), Field("avatar_url", TRUE), Field("full_avatar_url", TRUE)>>

ChatMember_fields ==
    UserWithPhoto_fields \o
    <<Field("last_access_time", FALSE), Field("is_owner", FALSE), Field("is_admin", FALSE),
      Field("join_time", FALSE), Field("permissions", TRUE)>>

Recipient_fields ==
    <<Field("chat_id", FALSE), Field("chat_type", FALSE), Field("user_id", FALSE)>>

Attachment_fields == <<Field("type", FALSE), Field("payload", TRUE)>>

LocationAttachment_fields ==
    Attachment_fields \o <<Field("latitude", TRUE), Field("longitude", TRUE)>>

MessageStat_fields == <<Field("views", FALSE)>>

MessageBody_fields ==
    <<Field("mid", FALSE), Field("seq", FALSE), Field("text", FALSE),
      Field("attachments", FALSE), Field("markup", TRUE)>>

LinkedMessage_fields ==
    <<Field("type", FALSE), Field("sender", FALSE), Field("chat_id", FALSE),
      Field("message", FALSE)>>

Message_fields ==
    <<Field("recipient", FALSE), Field("body", FALSE), Field("timestamp", FALSE),
      Field("sender", TRUE), Field("link", TRUE), Field("stat", TRUE), Field("url", TRUE)>>

Chat_fields ==
    <<Field("chat_id", FALSE), Field("type", FALSE), Field("status", FALSE),
      Field("title", FALSE), Field("last_event_time", FALSE),
      Field("participants_count", FALSE), Field("icon", FALSE), Field("is_public", FALSE),
      Field("description", FALSE), Field("owner_id", TRUE), Field("participants", TRUE),
      Field("link", TRUE), Field("dialog_with_user", TRUE),
      Field("chat_message_id", TRUE), Field("pinned_message", TRUE)>>

Update_fields ==
    <<Field("update_type", FALSE), Field("timestamp", FALSE), Field("payload", TRUE)>>

NewMessageBody_fields ==
    <<Field("text", TRUE), Field("attachments", TRUE), Field("link", TRUE),
      Field("notify", TRUE), Field("format", TRUE)>>

ChatAdmin_fields == <<Field("user_id", FALSE), Field("permissions", FALSE)>>

fields_of(c) ==
    CASE c = "User" -> User_fields
      [] c = "UserWithPhoto" -> UserWithPhoto_fields
      [] c = "ChatMember" -> ChatMember_fields
      [] c = "Recipient" -> Recipient_fields
      [] c = "Attachment" -> Attachment_fields
      [] c = "LocationAttachment" -> LocationAttachment_fields
      [] c = "MessageStat" -> MessageStat_fields
      [] c = "MessageBody" -> MessageBody_fields
      [] c = "LinkedMessage" -> LinkedMessage_fields
      [] c = "Message" -> Message_fields
      [] c = "Chat" -> Chat_fields
      [] c = "Update" -> Update_fields
      [] c = "NewMessageBody" -> NewMessageBody_fields
      [] c = "ChatAdmin" -> ChatAdmin_fields

\* @dataclass accepts the class: no field without a default after one with a default
dataclass_ok(fs) ==
    \A i, j \in DOMAIN fs : (i < j /\ fs[i].has_default) => fs[j].has_default

\* cls(**kw) with every field passed by keyword
new(c, kw) ==
    IF dataclass_ok(fields_of(c))
    THEN PObj(c, kw)
    ELSE Raise("TypeError", "non-default argument follows default argument")

----------------------------------------------------------------------------
(* User, UserWithPhoto, ChatMember, Recipient *)

User_from_dict(data) ==
    LET user_id == Subscript(data, "user_id")
        first_name == Subscript(data, "first_name")
        last_name == Get(data, "last_name")
        username == Get(data, "username")
        is_bot == Subscript(data, "is_bot")
        last_activity_time == Subscript(data, "last_activity_time")
        name == Get(data, "name")
    IN  FirstRaise(<<user_id, first_name, last_name, username, is_bot,
                     last_activity_time, name>>,
            new("User",
                [user_id |-> user_id, first_name |-> first_name,
                 last_name |-> last_name, username |-> username, is_bot |-> is_bot,
                 last_activity_time |-> last_activity_time, name |-> name]))

User_to_dict_name_from_username(self) ==
    PDict([user_id |-> self.v.user_id, first_name |-> self.v.first_name,
           last_name |-> self.v.last_name, username |-> self.v.username,
           is_bot |-> self.v.is_bot,
           last_activity_time |-> self.v.last_activity_time,
           name |-> self.v.username])

User_to_dict(self) ==
    PDict([user_id |-> self.v.user_id, first_name |-> self.v.first_name,
           last_name |-> self.v.last_name, username |-> self.v.username,
           is_bot |-> self.v.is_bot,
           last_activity_time |-> self.v.last_activity_time,
           name |-> self.v.name])

UserWithPhoto_from_dict(data) ==
    LET base == User_from_dict(data)
        description == Get(data, "description")
        avatar_url == Get(data, "avatar_url")
        full_avatar_url == Get(data, "full_avatar_url")
    IN  FirstRaise(<<base, description, avatar_url, full_avatar_url>>,
            new("UserWithPhoto",
                DictUpdate(User_to_dict(base).v,
                       [description |-> description, avatar_url |-> avatar_url,
                        full_avatar_url |-> full_avatar_url])))

UserWithPhoto_to_dict(self) ==
    PDict(DictUpdate(User_to_dict(self).v,
                 [description |-> self.v.description, avatar_url |-> self.v.avatar_url,
                  full_avatar_url |-> self.v.full_avatar_url]))

\* list(data["permissions"]) if data.get("permissions") is not None else None
ChatMember_permissions(data) ==
    IF IsRaise(Get(data, "permissions")) THEN Get(data, "permissions")
    ELSE IF Get(data, "permissions") # PNone THEN Subscript(data, "permissions")
    ELSE PNone

ChatMember_from_dict(data) ==
    IF ~dataclass_ok(ChatMember_fields)
    THEN Raise("TypeError", "non-default argument follows default argument")
    ELSE
    LET base == UserWithPhoto_from_dict(data)
        last_access_time == Subscript(data, "last_access_time")
        is_owner == Subscript(data, "is_owner")
        is_admin == Subscript(data, "is_admin")
        join_time == Subscript(data, "join_time")
        permissions == ChatMember_permissions(data)
    IN  FirstRaise(<<base, last_access_time, is_owner, is_admin, join_time, permissions>>,
            new("ChatMember",
                DictUpdate(UserWithPhoto_to_dict(base).v,
                       [last_access_time |-> last_access_time, is_owner |-> is_owner,
                        is_admin |-> is_admin, join_time |-> join_time,
                        permissions |-> permissions])))

ChatMember_to_dict(self) ==
    PDict(DictUpdate(UserWithPhoto_to_dict(self).v,
                 [last_access_time |-> self.v.last_access_time,
                  is_owner |-> self.v.is_owner, is_admin |-> self.v.is_admin,
                  join_time |-> self.v.join_time, permissions |-> self.v.permissions]))

Recipient_from_dict(data) ==
    LET chat_id == Get(data, "chat_id")
        chat_type == Subscript(data, "chat_type")
        user_id == Get(data, "user_id")
    IN  FirstRaise(<<chat_id, chat_type, user_id>>,
            new("Recipient",
                [chat_id |-> chat_id, chat_type |-> chat_type, user_id |-> user_id]))

Recipient_to_dict(self) ==
    PDict([chat_id |-> self.v.chat_id, chat_type |-> self.v.chat_type,
           user_id |-> self.v.user_id])

----------------------------------------------------------------------------
(* Update *)

Update_payload_all(data) ==
    IF data.t # "dict" THEN Raise("AttributeError", "items") ELSE data

\* {k: v for k, v in data.items() if k not in ("update_type", "timestamp")}
Update_payload(data) ==
    IF data.t # "dict" THEN Raise("AttributeError", "items")
    ELSE PDict([k \in DOMAIN data.v \ {"update_type", "timestamp"} |-> data.v[k]])

Update_from_dict(data) ==
    LET update_type == Subscript(data, "update_type")
        timestamp == Subscript(data, "timestamp")
        payload == Update_payload(data)
    IN  FirstRaise(<<update_type, timestamp, payload>>,
            new("Update",
                [update_type |-> update_type, timestamp |-> timestamp,
                 payload |-> payload]))

Update_to_dict_nested(self) ==
    PDict([payload |-> self.v.payload, update_type |-> self.v.update_type,
           timestamp |-> self.v.timestamp])

Update_to_dict(self) ==
    PDict(SetItem(SetItem(self.v.payload.v, "update_type", self.v.update_type),
                  "timestamp", self.v.timestamp))

----------------------------------------------------------------------------
(* Attachment, LocationAttachment, MessageStat, MessageBody *)

Attachment_from_dict_known_only(data) ==
    LET type == Subscript(data, "type")
        payload == Get(data, "payload")
    IN  IF ~IsRaise(type) /\ type \notin {PStr("image"), PStr("location")}
        THEN Raise("ValueError", "type")
        ELSE FirstRaise(<<type, payload>>,
                new("Attachment", [type |-> type, payload |-> payload]))

Attachment_from_dict(data) ==
    LET type == Subscript(data, "type")
        payload == Get(data, "payload")
    IN  FirstRaise(<<type, payload>>,
            new("Attachment", [type |-> type, payload |-> payload]))

Attachment_to_dict(self) ==
    IF self.v.payload # PNone
    THEN PDict([type |-> self.v.type, payload |-> self.v.payload])
    ELSE PDict([type |-> self.v.type])

\* the default of latitude and longitude
ZeroFloat == PFloat(0)

LocationAttachment_from_dict(data) ==
    LET got == Get(data, "payload")
        payload == IF IsRaise(got) THEN got
                   ELSE IF Truthy(got) THEN got ELSE PDict(EmptyMap)
        type == Subscript(data, "type")
        latitude == GetDefault(payload, "latitude", ZeroFloat)
        longitude == GetDefault(payload, "longitude", ZeroFloat)
    IN  FirstRaise(<<payload, type, latitude, longitude>>,
            new("LocationAttachment",
                [type |-> type, payload |-> payload,
                 latitude |-> latitude, longitude |-> longitude]))

LocationAttachment_to_dict_payload_only(self) ==
    PDict([type |-> self.v.type,
           payload |-> IF Truthy(self.v.payload) THEN self.v.payload ELSE PDict(EmptyMap)])

LocationAttachment_to_dict(self) ==
    LET payload == IF Truthy(self.v.payload) THEN self.v.payload.v ELSE EmptyMap
    IN  PDict([type |-> self.v.type,
               payload |-> PDict(SetItem(SetItem(payload, "latitude", self.v.latitude),
                                         "longitude", self.v.longitude))])

\* a.to_dict() for an element of an attachments list: the method of a's class
attachment_to_dict(a) ==
    IF a.cls = "LocationAttachment" THEN LocationAttachment_to_dict(a)
    ELSE Attachment_to_dict(a)

MessageStat_from_dict(data) ==
    LET views == Subscript(data, "views")
    IN  FirstRaise(<<views>>, new("MessageStat", [views |-> views]))

MessageStat_to_dict(self) == PDict([views |-> self.v.views])

\* attachments_raw = data.get("attachments") or []
\* attachments = [Attachment.from_dict(a) for a in attachments_raw]
decode_attachments(data) ==
    LET got == Get(data, "attachments")
        raw == IF Truthy(got) THEN got.v ELSE <<>>
        items == [i \in DOMAIN raw |-> Attachment_from_dict(raw[i])]
    IN  IF IsRaise(got) THEN got ELSE FirstRaise(items, PList(items))

\* [a.to_dict() for a in self.attachments]
encode_attachments(self) ==
    PList([i \in DOMAIN self.v.attachments.v |-> attachment_to_dict(self.v.attachments.v[i])])

MessageBody_from_dict(data) ==
    LET attachments == decode_attachments(data)
        mid == Subscript(data, "mid")
        seq == Subscript(data, "seq")
        text == Get(data, "text")
        markup == Get(data, "markup")
    IN  FirstRaise(<<attachments, mid, seq, text, markup>>,
            new("MessageBody",
                [mid |-> mid, seq |-> seq, text |-> text,
                 attachments |-> attachments, markup |-> markup]))

MessageBody_to_dict(self) ==
    PDict([mid |-> self.v.mid, seq |-> self.v.seq, text |-> self.v.text,
           attachments |-> encode_attachments(self), markup |-> self.v.markup])

----------------------------------------------------------------------------
(* LinkedMessage, Message, Chat *)

\* X.from_dict(raw) if isinstance(raw, Mapping) else None
User_if_mapping(raw) == IF IsMapping(raw) THEN User_from_dict(raw) ELSE PNone
MessageStat_if_mapping(raw) == IF IsMapping(raw) THEN MessageStat_from_dict(raw) ELSE PNone
UserWithPhoto_if_mapping(raw) ==
    IF IsMapping(raw) THEN UserWithPhoto_from_dict(raw) ELSE PNone

\* X.from_dict(data[k])
MessageBody_at(data, k) ==
    IF IsRaise(Subscript(data, k)) THEN Subscript(data, k)
    ELSE MessageBody_from_dict(Subscript(data, k))
Recipient_at(data, k) ==
    IF IsRaise(Subscript(data, k)) THEN Subscript(data, k)
    ELSE Recipient_from_dict(Subscript(data, k))

\* self.x.to_dict() if self.x else None: an instance is always true
User_or_None(x) == IF x # PNone THEN User_to_dict(x) ELSE PNone
MessageStat_or_None(x) == IF x # PNone THEN MessageStat_to_dict(x) ELSE PNone
UserWithPhoto_or_None(x) == IF x # PNone THEN UserWithPhoto_to_dict(x) ELSE PNone

LinkedMessage_from_dict(data) ==
    LET sender_raw == Get(data, "sender")
        sender == IF IsRaise(sender_raw) THEN sender_raw ELSE User_if_mapping(sender_raw)
        type == Subscript(data, "type")
        chat_id == Subscript(data, "chat_id")
        message == MessageBody_at(data, "message")
    IN  FirstRaise(<<sender, type, chat_id, message>>,
            new("LinkedMessage",
                [type |-> type, sender |-> sender, chat_id |-> chat_id,
                 message |-> message]))

LinkedMessage_to_dict(self) ==
    PDict([type |-> self.v.type, sender |-> User_or_None(self.v.sender),
           chat_id |-> self.v.chat_id, message |-> MessageBody_to_dict(self.v.message)])

LinkedMessage_if_mapping(raw) ==
    IF IsMapping(raw) THEN LinkedMessage_from_dict(raw) ELSE PNone
LinkedMessage_or_None(x) == IF x # PNone THEN LinkedMessage_to_dict(x) ELSE PNone

Message_from_dict(data) ==
    LET sender_raw == Get(data, "sender")
        link_raw == Get(data, "link")
        stat_raw == Get(data, "stat")
        sender == User_if_mapping(sender_raw)
        link == LinkedMessage_if_mapping(link_raw)
        stat == MessageStat_if_mapping(stat_raw)
        recipient == Recipient_at(data, "recipient")
        body == MessageBody_at(data, "body")
        timestamp == Subscript(data, "timestamp")
        url == Get(data, "url")
    IN  IF IsRaise(sender_raw) THEN sender_raw
        ELSE FirstRaise(<<sender, link, stat, recipient, body, timestamp, url>>,
            new("Message",
                [recipient |-> recipient, body |-> body, timestamp |-> timestamp,
                 sender |-> sender, link |-> link, stat |-> stat, url |-> url]))

Message_to_dict(self) ==
    PDict([sender |-> User_or_None(self.v.sender),
           recipient |-> Recipient_to_dict(self.v.recipient),
           timestamp |-> self.v.timestamp,
           link |-> LinkedMessage_or_None(self.v.link),
           body |-> MessageBody_to_dict(self.v.body),
           stat |-> MessageStat_or_None(self.v.stat),
           url |-> self.v.url])

Message_if_mapping(raw) == IF IsMapping(raw) THEN Message_from_dict(raw) ELSE PNone
Message_or_None(x) == IF x # PNone THEN Message_to_dict(x) ELSE PNone

\* participants = data.get("participants"); a mapping is copied with dict(...)
Chat_participants_or_empty(data) == GetDefault(data, "participants", PDict(EmptyMap))

Chat_participants(data) == Get(data, "participants")

Chat_from_dict(data) ==
    LET participants == Chat_participants(data)
        dialog == UserWithPhoto_if_mapping(Get(data, "dialog_with_user"))
        pinned == Message_if_mapping(Get(data, "pinned_message"))
        chat_id == Subscript(data, "chat_id")
        type == Subscript(data, "type")
        status == Subscript(data, "status")
        title == Get(data, "title")
        last_event_time == Subscript(data, "last_event_time")
        participants_count == Subscript(data, "participants_count")
        icon == Get(data, "icon")
        is_public == Subscript(data, "is_public")
        description == Get(data, "description")
        owner_id == Get(data, "owner_id")
        link == Get(data, "link")
        chat_message_id == Get(data, "chat_message_id")
    IN  IF IsRaise(participants) THEN participants
        ELSE FirstRaise(<<dialog, pinned, chat_id, type, status, title, last_event_time,
                          participants_count, icon, is_public, description, owner_id,
                          link, chat_message_id>>,
            new("Chat",
                [chat_id |-> chat_id, type |-> type, status |-> status, title |-> title,
                 last_event_time |-> last_event_time,
                 participants_count |-> participants_count, icon |-> icon,
                 is_public |-> is_public, description |-> description,
                 owner_id |-> owner_id, participants |-> participants, link |-> link,
                 dialog_with_user |-> dialog, chat_message_id |-> chat_message_id,
                 pinned_message |-> pinned]))

Chat_to_dict(self) ==
    PDict([chat_id |-> self.v.chat_id, type |-> self.v.type, status |-> self.v.status,
           title |-> self.v.title, last_event_time |-> self.v.last_event_time,
           participants_count |-> self.v.participants_count, icon |-> self.v.icon,
           is_public |-> self.v.is_public, description |-> self.v.description,
           owner_id |-> self.v.owner_id, participants |-> self.v.participants,
           link |-> self.v.link,
           dialog_with_user |-> UserWithPhoto_or_None(self.v.dialog_with_user),
           chat_message_id |-> self.v.chat_message_id,
           pinned_message |-> Message_or_None(self.v.pinned_message)])

----------------------------------------------------------------------------
(* NewMessageBody, ChatAdmin *)

NewMessageBody_from_dict(data) ==
    LET attachments == decode_attachments(data)
        text == Get(data, "text")
        link == Get(data, "link")
        notify == GetDefault(data, "notify", PBool(TRUE))
        format == Get(data, "format")
    IN  FirstRaise(<<attachments, text, link, notify, format>>,
            new("NewMessageBody",
                [text |-> text, attachments |-> attachments, link |-> link,
                 notify |-> notify, format |-> format]))

NewMessageBody_to_dict(self) ==
    PDict([text |-> self.v.text, attachments |-> encode_attachments(self),
           link |-> self.v.link, notify |-> self.v.notify, format |-> self.v.format])

\* list(data.get("permissions") or [])
ChatAdmin_permissions(data) ==
    IF IsRaise(Get(data, "permissions")) THEN Get(data, "permissions")
    ELSE IF Truthy(Get(data, "permissions")) THEN Get(data, "permissions")
    ELSE PList(<<>>)

ChatAdmin_from_dict(data) ==
    LET user_id == Subscript(data, "user_id")
        permissions == ChatAdmin_permissions(data)
    IN  FirstRaise(<<user_id, permissions>>,
            new("ChatAdmin", [user_id |-> user_id, permissions |-> permissions]))

ChatAdmin_to_dict(self) ==
    PDict([user_id |-> self.v.user_id, permissions |-> self.v.permissions])

----------------------------------------------------------------------------
(* Inputs of the codec: entity values a caller can construct, and mappings *)
(* a response can hold                                                     *)

\* the longest attachments list of the values drawn
MaxAttachments == 2

Opt(S) == S \cup {PNone}

\* the mapping d without the keys in K
DropKeys(d, K) == PDict([k \in DOMAIN d.v \ K |-> d.v[k]])

\* the sets of keys left out of a mapping: any optional keys, or one required key
DropSets(optional, required) == (SUBSET optional) \cup {{k} : k \in required}

SeqsUpTo(S, n) == UNION {[1..m -> S] : m \in 0..n}

Users ==
    {PObj("User", f) : f \in
        [user_id : {PInt(7)}, first_name : {PStr("Ann")},
         last_name : Opt({PStr("Lee")}), username : Opt({PStr("ann")}),
         is_bot : {PBool(FALSE), PBool(TRUE)},
         last_activity_time : {PInt(1000)}, name : Opt({PStr("Ann Lee")})]}

UserBare ==
    PObj("User",
         [user_id |-> PInt(7), first_name |-> PStr("Ann"), last_name |-> PNone,
          username |-> PNone, is_bot |-> PBool(FALSE),
          last_activity_time |-> PInt(1000), name |-> PNone])
UserFull ==
    PObj("User",
         [user_id |-> PInt(8), first_name |-> PStr("Bob"), last_name |-> PStr("Ray"),
          username |-> PStr("bob"), is_bot |-> PBool(TRUE),
          last_activity_time |-> PInt(2000), name |-> PStr("Bob Ray")])
UserSamples == {UserBare, UserFull}

UsersWithPhoto ==
    {PObj("UserWithPhoto", DictUpdate(u.v, f)) : u \in Users, f \in
        [description : Opt({PStr("bio")}), avatar_url : Opt({PStr("http://a")}),
         full_avatar_url : Opt({PStr("http://A")})]}

UserWithPhotoSamples ==
    {PObj("UserWithPhoto",
          DictUpdate(UserBare.v, [description |-> PNone, avatar_url |-> PNone,
                                  full_avatar_url |-> PNone])),
     PObj("UserWithPhoto",
          DictUpdate(UserFull.v, [description |-> PStr("bio"),
                                  avatar_url |-> PStr("http://a"),
                                  full_avatar_url |-> PStr("http://A")]))}

Recipients ==
    {PObj("Recipient", f) : f \in
        [chat_id : Opt({PInt(5)}), chat_type : {PStr("chat"), PStr("dialog")},
         user_id : Opt({PInt(7)})]}

RecipientSamples ==
    {PObj("Recipient", [chat_id |-> PInt(5), chat_type |-> PStr("chat"), user_id |-> PNone]),
     PObj("Recipient", [chat_id |-> PNone, chat_type |-> PStr("dialog"), user_id |-> PInt(7)])}

PayloadUrl == PDict([url |-> PStr("http://img")])
PayloadPoint == PDict([latitude |-> PFloat(15), longitude |-> PFloat(25)])
PayloadPointZoom ==
    PDict([latitude |-> PFloat(15), longitude |-> PFloat(25), zoom |-> PInt(3)])
PayloadZoom == PDict([zoom |-> PInt(3)])

Attachments ==
    {PObj("Attachment", f) : f \in
        [type : {PStr("image"), PStr("location"), PStr("hologram")},
         payload : {PNone, PDict(EmptyMap), PayloadUrl, PayloadPoint}]}

LocationAttachments ==
    {PObj("LocationAttachment", f) : f \in
        [type : {PStr("location")},
         payload : {PNone, PDict(EmptyMap), PayloadPoint, PayloadPointZoom, PayloadZoom},
         latitude : {PFloat(0), PFloat(15)},
         longitude : {PFloat(0), PFloat(25)}]}

AttachmentImage == PObj("Attachment", [type |-> PStr("image"), payload |-> PayloadUrl])
AttachmentUnknown == PObj("Attachment", [type |-> PStr("hologram"), payload |-> PNone])
AttachmentPoint ==
    PObj("LocationAttachment",
         [type |-> PStr("location"), payload |-> PayloadPoint,
          latitude |-> PFloat(15), longitude |-> PFloat(25)])
AttachmentPool == {AttachmentImage, AttachmentUnknown, AttachmentPoint}

MessageStats == {PObj("MessageStat", [views |-> PInt(n)]) : n \in {0, 3}}

Markup == PList(<<PDict([type |-> PStr("strong"), from |-> PInt(0)])>>)

MessageBodies ==
    {PObj("MessageBody", f) : f \in
        [mid : {PStr("m1")}, seq : {PInt(1)}, text : Opt({PStr("hi")}),
         attachments : {PList(a) : a \in SeqsUpTo(AttachmentPool, MaxAttachments)},
         markup : Opt({Markup})]}

BodyPlain ==
    PObj("MessageBody",
         [mid |-> PStr("m1"), seq |-> PInt(1), text |-> PStr("hi"),
          attachments |-> PList(<<>>), markup |-> PNone])
BodyImage ==
    PObj("MessageBody",
         [mid |-> PStr("m2"), seq |-> PInt(2), text |-> PNone,
          attachments |-> PList(<<AttachmentImage>>), markup |-> Markup])
BodyPoint ==
    PObj("MessageBody",
         [mid |-> PStr("m3"), seq |-> PInt(3), text |-> PNone,
          attachments |-> PList(<<AttachmentPoint>>), markup |-> PNone])
BodySamples == {BodyPlain, BodyImage, BodyPoint}

LinkedMessages ==
    {PObj("LinkedMessage", f) : f \in
        [type : {PStr("forward"), PStr("reply")}, sender : Opt(UserSamples),
         chat_id : {PInt(5)}, message : BodySamples]}

LinkSamples ==
    {PObj("LinkedMessage",
          [type |-> PStr("reply"), sender |-> PNone, chat_id |-> PInt(5),
           message |-> BodyPlain]),
     PObj("LinkedMessage",
          [type |-> PStr("forward"), sender |-> UserFull, chat_id |-> PInt(5),
           message |-> BodyImage])}

Messages ==
    {PObj("Message", f) : f \in
        [recipient : RecipientSamples, body : BodySamples, timestamp : {PInt(1000)},
         sender : Opt(UserSamples), link : Opt(LinkSamples), stat : Opt(MessageStats),
         url : Opt({PStr("http://m")})]}

MessagePlain ==
    PObj("Message",
         [recipient |-> CHOOSE r \in RecipientSamples : r.v.user_id = PNone,
          body |-> BodyPlain, timestamp |-> PInt(1000), sender |-> PNone,
          link |-> PNone, stat |-> PNone, url |-> PNone])
MessageRich ==
    PObj("Message",
         [recipient |-> CHOOSE r \in RecipientSamples : r.v.chat_id = PNone,
          body |-> BodyImage, timestamp |-> PInt(2000), sender |-> UserFull,
          link |-> CHOOSE l \in LinkSamples : l.v.sender = PNone,
          stat |-> PObj("MessageStat", [views |-> PInt(0)]),
          url |-> PStr("http://m")])
MessageSamples == {MessagePlain, MessageRich}

Chats ==
    {PObj("Chat", f) : f \in
        [chat_id : {PInt(5)}, type : {PStr("chat")}, status : {PStr("active")},
         title : Opt({PStr("Team")}), last_event_time : {PInt(1000)},
         participants_count : {PInt(2)},
         icon : Opt({PDict([url |-> PStr("http://i")])}),
         is_public : {PBool(FALSE)}, description : Opt({PStr("about")}),
         owner_id : Opt({PInt(7)}),
         participants : {PNone, PDict(EmptyMap), PDict([u7 |-> PInt(7)])},
         link : Opt({PStr("http://c")}),
         dialog_with_user : Opt(UserWithPhotoSamples),
         chat_message_id : Opt({PStr("m1")}),
         pinned_message : Opt(MessageSamples)]}

Updates ==
    {PObj("Update", f) : f \in
        [update_type : {PStr("message_created")}, timestamp : {PInt(1000)},
         payload : {PDict(EmptyMap), PDict([chat_id |-> PInt(5)]),
                    PDict([chat_id |-> PInt(5), user_locale |-> PNone]),
                    PDict([update_type |-> PStr("stale")]),
                    PDict([update_type |-> PStr("message_created"),
                           timestamp |-> PInt(1000)]),
                    PDict([timestamp |-> PInt(1), chat_id |-> PInt(5)])}]}

\* keys read with data.get(...) and keys read with data[...]
User_optional == {"last_name", "username", "name"}
User_required == {"user_id", "first_name", "is_bot", "last_activity_time"}
UserWithPhoto_optional == User_optional \cup {"description", "avatar_url", "full_avatar_url"}
ChatMember_own_optional == {"permissions"}
ChatMember_own_required == {"last_access_time", "is_owner", "is_admin", "join_time"}
Recipient_optional == {"chat_id", "user_id"}
Recipient_required == {"chat_type"}

\* a mapping with one key the entity does not know
WithExtra(d) == PDict(SetItem(d.v, "locale", PStr("ru")))

UserDicts ==
    LET base == {DropKeys(User_to_dict(u), K) :
                    u \in Users, K \in DropSets(User_optional, User_required)}
    IN  base \cup {WithExtra(d) : d \in base}

UserWithPhotoDicts ==
    {DropKeys(UserWithPhoto_to_dict(u), K) :
        u \in UserWithPhotoSamples, K \in DropSets(UserWithPhoto_optional, User_required)}

ChatMemberDicts ==
    {DropKeys(PDict(DictUpdate(UserWithPhoto_to_dict(u).v, f)), K) :
        u \in UserWithPhotoSamples,
        f \in [last_access_time : {PInt(3000)}, is_owner : {PBool(FALSE)},
               is_admin : {PBool(TRUE)}, join_time : {PInt(500)},
               permissions : Opt({PList(<<PStr("write"), PStr("pin_message")>>)})],
        K \in DropSets(ChatMember_own_optional, ChatMember_own_required)}

RecipientDicts ==
    LET base == {DropKeys(Recipient_to_dict(r), K) :
                    r \in Recipients, K \in DropSets(Recipient_optional, Recipient_required)}
    IN  base \cup {WithExtra(d) : d \in base}

UpdateExtras ==
    [message : {PDict([text |-> PStr("hi")])}, chat_id : {PInt(5)},
     user_locale : {PNone, PStr("ru")}]

UpdateDicts ==
    {DropKeys(PDict(DictUpdate([update_type |-> PStr("message_created"),
                                timestamp |-> PInt(1000)], x)), K) :
        x \in UpdateExtras,
        K \in DropSets({"message", "chat_id", "user_locale"}, {"update_type", "timestamp"})}

AttachmentDicts ==
    {Attachment_to_dict(a) : a \in Attachments}
    \cup {PDict([type |-> PStr("image"), payload |-> PNone]), PDict([payload |-> PayloadUrl])}

LocationAttachmentDicts ==
    {LocationAttachment_to_dict(a) : a \in LocationAttachments}
    \cup {PDict([type |-> PStr("location")]),
          PDict([payload |-> PayloadPoint]),
          PDict([type |-> PStr("location"), payload |-> PNone]),
          PDict([type |-> PStr("location"), payload |-> PayloadZoom])}

MessageStatDicts == {MessageStat_to_dict(x) : x \in MessageStats} \cup {PDict(EmptyMap)}

MessageBodyDicts ==
    {DropKeys(MessageBody_to_dict(b), K) :
        b \in BodySamples, K \in DropSets({"text", "attachments", "markup"}, {"mid", "seq"})}

LinkedMessageDicts ==
    {DropKeys(LinkedMessage_to_dict(l), K) :
        l \in LinkSamples, K \in DropSets({"sender"}, {"type", "chat_id", "message"})}

MessageDicts ==
    {DropKeys(Message_to_dict(m), K) :
        m \in MessageSamples,
        K \in DropSets({"sender", "link", "stat", "url"}, {"recipient", "body", "timestamp"})}

ChatSamples == {c \in Chats :
                  \/ \A k \in {"title", "icon", "description", "owner_id", "participants",
                               "link", "dialog_with_user", "chat_message_id",
                               "pinned_message"} : c.v[k] = PNone
                  \/ \A k \in {"title", "icon", "description", "owner_id", "participants",
                               "link", "dialog_with_user", "chat_message_id",
                               "pinned_message"} : c.v[k] # PNone}

ChatDicts ==
    {DropKeys(Chat_to_dict(c), K) :
        c \in ChatSamples,
        K \in DropSets({"participants", "dialog_with_user", "pinned_message"},
                       {"chat_id", "type", "status", "last_event_time",
                        "participants_count", "is_public"})}

NewMessageBodies ==
    {PObj("NewMessageBody", f) : f \in
        [text : Opt({PStr("hi")}),
         attachments : {PList(<<>>), PList(<<AttachmentImage>>)},
         link : Opt({PDict([type |-> PStr("reply"), mid |-> PStr("m1")])}),
         notify : {PBool(TRUE), PBool(FALSE)},
         format : Opt({PDict([mode |-> PStr("markdown")])})]}

NewMessageBodyDicts ==
    {DropKeys(NewMessageBody_to_dict(b), K) :
        b \in NewMessageBodies,
        K \in {{}, {"notify"}, {"attachments"}, {"text", "link", "format"},
               {"text", "attachments", "link", "notify", "format"}}}

Permissions == PList(<<PStr("write"), PStr("pin_message")>>)

ChatAdmins ==
    {PObj("ChatAdmin", f) : f \in
        [user_id : {PInt(7)}, permissions : {PList(<<>>), Permissions}]}

ChatAdminDicts ==
    {ChatAdmin_to_dict(a) : a \in ChatAdmins}
    \cup {PDict([user_id |-> PInt(7)]),
          PDict([user_id |-> PInt(7), permissions |-> PNone]),
          PDict([permissions |-> Permissions])}

\* mappings whose required values have the wrong shape
UserDictsWrongShape ==
    {PDict(SetItem(User_to_dict(UserFull).v, "user_id", x)) : x \in {PNone, PStr("seven")}}
    \cup {PDict(SetItem(User_to_dict(UserFull).v, "is_bot", PStr("no")))}

\* the runs of the codec: direction, class, input
CodecInputs ==
    UNION {
        {<<"ede", "User", x>> : x \in Users},
        {<<"ede", "UserWithPhoto", x>> : x \in UsersWithPhoto},
        {<<"ede", "Recipient", x>> : x \in Recipients},
        {<<"ede", "Attachment", x>> : x \in Attachments},
        {<<"ede", "LocationAttachment", x>> : x \in LocationAttachments},
        {<<"ede", "MessageStat", x>> : x \in MessageStats},
        {<<"ede", "MessageBody", x>> : x \in MessageBodies},
        {<<"ede", "LinkedMessage", x>> : x \in LinkedMessages},
        {<<"ede", "Message", x>> : x \in Messages},
        {<<"ede", "Chat", x>> : x \in Chats},
        {<<"ede", "Update", x>> : x \in Updates},
        {<<"ede", "NewMessageBody", x>> : x \in NewMessageBodies},
        {<<"ede", "ChatAdmin", x>> : x \in ChatAdmins},
        {<<"ded", "NewMessageBody", x>> : x \in NewMessageBodyDicts},
        {<<"ded", "ChatAdmin", x>> : x \in ChatAdminDicts},
        {<<"ded", "User", x>> : x \in UserDictsWrongShape},
        {<<"ded", "User", x>> : x \in UserDicts},
        {<<"ded", "UserWithPhoto", x>> : x \in UserWithPhotoDicts},
        {<<"ded", "ChatMember", x>> : x \in ChatMemberDicts},
        {<<"ded", "Recipient", x>> : x \in RecipientDicts},
        {<<"ded", "Attachment", x>> : x \in AttachmentDicts},
        {<<"ded", "LocationAttachment", x>> : x \in LocationAttachmentDicts},
        {<<"ded", "MessageStat", x>> : x \in MessageStatDicts},
        {<<"ded", "MessageBody", x>> : x \in MessageBodyDicts},
        {<<"ded", "LinkedMessage", x>> : x \in LinkedMessageDicts},
        {<<"ded", "Message", x>> : x \in MessageDicts},
        {<<"ded", "Chat", x>> : x \in ChatDicts},
        {<<"ded", "Update", x>> : x \in UpdateDicts}}

----------------------------------------------------------------------------
(* The codec as a state machine: a run applies one class's encoder and     *)
(* decoder one after the other, in either order; an exception ends the run *)

ClientIdle ==
    /\ access_token = Token
    /\ base_url = DEFAULT_BASE_URL
    /\ timeout = PNone
    /\ attempts = 0
    /\ use_models = FALSE
    /\ op = NoOp
    /\ result = NoOutcome
    /\ last_marker = PNone
    /\ pc = "idle"
    /\ call = NoCall
    /\ sent = NoRequest
    /\ resp = NoResponse
    /\ outcome = NoOutcome

CodecInit ==
    /\ ClientIdle
    /\ cpc = "start"
    /\ \E i \in CodecInputs :
        /\ cdir = i[1]
        /\ ccls = i[2]
        /\ cin = i[3]
    /\ cmid = PNone
    /\ cout = PNone

\* to_dict as a step of a run: the first step of an encode-decode run (giving
\* of_input), the second of a decode-encode run (giving of_decoded)
Encode(of_input, of_decoded) ==
    \/ /\ cpc = "start" /\ cdir = "ede"
       /\ cmid' = of_input /\ cpc' = "mid" /\ cout' = cout
    \/ /\ cpc = "mid" /\ cdir = "ded" /\ ~IsRaise(cmid)
       /\ cout' = of_decoded /\ cpc' = "done" /\ cmid' = cmid

\* from_dict as a step of a run: the first step of a decode-encode run, the
\* second of an encode-decode run
Decode(of_input, of_encoded) ==
    \/ /\ cpc = "start" /\ cdir = "ded"
       /\ cmid' = of_input /\ cpc' = "mid" /\ cout' = cout
    \/ /\ cpc = "mid" /\ cdir = "ede" /\ ~IsRaise(cmid)
       /\ cout' = of_encoded /\ cpc' = "done" /\ cmid' = cmid

EncodeUser ==
    /\ ccls = "User"
    /\ Encode(User_to_dict(cin), User_to_dict(cmid))
    /\ UNCHANGED <<cdir, ccls, cin>>
    /\ UNCHANGED clientVars

DecodeUser ==
    /\ ccls = "User"
    /\ Decode(User_from_dict(cin), User_from_dict(cmid))
    /\ UNCHANGED <<cdir, ccls, cin>>
    /\ UNCHANGED clientVars

EncodeUserWithPhoto ==
    /\ ccls = "UserWithPhoto"
    /\ Encode(UserWithPhoto_to_dict(cin), UserWithPhoto_to_dict(cmid))
    /\ UNCHANGED <<cdir, ccls, cin>>
    /\ UNCHANGED clientVars

DecodeUserWithPhoto ==
    /\ ccls = "UserWithPhoto"
    /\ Decode(UserWithPhoto_from_dict(cin), UserWithPhoto_from_dict(cmid))
    /\ UNCHANGED <<cdir, ccls, cin>>
    /\ UNCHANGED clientVars

DecodeChatMember ==
    /\ ccls = "ChatMember"
    /\ Decode(ChatMember_from_dict(cin), ChatMember_from_dict(cmid))
    /\ UNCHANGED <<cdir, ccls, cin>>
    /\ UNCHANGED clientVars

EncodeRecipient ==
    /\ ccls = "Recipient"
    /\ Encode(Recipient_to_dict(cin), Recipient_to_dict(cmid))
    /\ UNCHANGED <<cdir, ccls, cin>>
    /\ UNCHANGED clientVars

DecodeRecipient ==
    /\ ccls = "Recipient"
    /\ Decode(Recipient_from_dict(cin), Recipient_from_dict(cmid))
    /\ UNCHANGED <<cdir, ccls, cin>>
    /\ UNCHANGED clientVars

EncodeAttachment ==
    /\ ccls = "Attachment"
    /\ Encode(Attachment_to_dict(cin), Attachment_to_dict(cmid))
    /\ UNCHANGED <<cdir, ccls, cin>>
    /\ UNCHANGED clientVars

DecodeAttachment ==
    /\ ccls = "Attachment"
    /\ Decode(Attachment_from_dict(cin), Attachment_from_dict(cmid))
    /\ UNCHANGED <<cdir, ccls, cin>>
    /\ UNCHANGED clientVars

EncodeLocationAttachment ==
    /\ ccls = "LocationAttachment"
    /\ Encode(LocationAttachment_to_dict(cin), LocationAttachment_to_dict(cmid))
    /\ UNCHANGED <<cdir, ccls, cin>>
    /\ UNCHANGED clientVars

DecodeLocationAttachment ==
    /\ ccls = "LocationAttachment"
    /\ Decode(LocationAttachment_from_dict(cin), LocationAttachment_from_dict(cmid))
    /\ UNCHANGED <<cdir, ccls, cin>>
    /\ UNCHANGED clientVars

EncodeMessageStat ==
    /\ ccls = "MessageStat"
    /\ Encode(MessageStat_to_dict(cin), MessageStat_to_dict(cmid))
    /\ UNCHANGED <<cdir, ccls, cin>>
    /\ UNCHANGED clientVars

DecodeMessageStat ==
    /\ ccls = "MessageStat"
    /\ Decode(MessageStat_from_dict(cin), MessageStat_from_dict(cmid))
    /\ UNCHANGED <<cdir, ccls, cin>>
    /\ UNCHANGED clientVars

EncodeMessageBody ==
    /\ ccls = "MessageBody"
    /\ Encode(MessageBody_to_dict(cin), MessageBody_to_dict(cmid))
    /\ UNCHANGED <<cdir, ccls, cin>>
    /\ UNCHANGED clientVars

DecodeMessageBody ==
    /\ ccls = "MessageBody"
    /\ Decode(MessageBody_from_dict(cin), MessageBody_from_dict(cmid))
    /\ UNCHANGED <<cdir, ccls, cin>>
    /\ UNCHANGED clientVars

EncodeLinkedMessage ==
    /\ ccls = "LinkedMessage"
    /\ Encode(LinkedMessage_to_dict(cin), LinkedMessage_to_dict(cmid))
    /\ UNCHANGED <<cdir, ccls, cin>>
    /\ UNCHANGED clientVars

DecodeLinkedMessage ==
    /\ ccls = "LinkedMessage"
    /\ Decode(LinkedMessage_from_dict(cin), LinkedMessage_from_dict(cmid))
    /\ UNCHANGED <<cdir, ccls, cin>>
    /\ UNCHANGED clientVars

EncodeMessage ==
    /\ ccls = "Message"
    /\ Encode(Message_to_dict(cin), Message_to_dict(cmid))
    /\ UNCHANGED <<cdir, ccls, cin>>
    /\ UNCHANGED clientVars

DecodeMessage ==
    /\ ccls = "Message"
    /\ Decode(Message_from_dict(cin), Message_from_dict(cmid))
    /\ UNCHANGED <<cdir, ccls, cin>>
    /\ UNCHANGED clientVars

EncodeChat ==
    /\ ccls = "Chat"
    /\ Encode(Chat_to_dict(cin), Chat_to_dict(cmid))
    /\ UNCHANGED <<cdir, ccls, cin>>
    /\ UNCHANGED clientVars

DecodeChat ==
    /\ ccls = "Chat"
    /\ Decode(Chat_from_dict(cin), Chat_from_dict(cmid))
    /\ UNCHANGED <<cdir, ccls, cin>>
    /\ UNCHANGED clientVars

EncodeUpdate ==
    /\ ccls = "Update"
    /\ Encode(Update_to_dict(cin), Update_to_dict(cmid))
    /\ UNCHANGED <<cdir, ccls, cin>>
    /\ UNCHANGED clientVars

DecodeUpdate ==
    /\ ccls = "Update"
    /\ Decode(Update_from_dict(cin), Update_from_dict(cmid))
    /\ UNCHANGED <<cdir, ccls, cin>>
    /\ UNCHANGED clientVars

EncodeNewMessageBody ==
    /\ ccls = "NewMessageBody"
    /\ Encode(NewMessageBody_to_dict(cin), NewMessageBody_to_dict(cmid))
    /\ UNCHANGED <<cdir, ccls, cin>>
    /\ UNCHANGED clientVars

DecodeNewMessageBody ==
    /\ ccls = "NewMessageBody"
    /\ Decode(NewMessageBody_from_dict(cin), NewMessageBody_from_dict(cmid))
    /\ UNCHANGED <<cdir, ccls, cin>>
    /\ UNCHANGED clientVars

EncodeChatAdmin ==
    /\ ccls = "ChatAdmin"
    /\ Encode(ChatAdmin_to_dict(cin), ChatAdmin_to_dict(cmid))
    /\ UNCHANGED <<cdir, ccls, cin>>
    /\ UNCHANGED clientVars

DecodeChatAdmin ==
    /\ ccls = "ChatAdmin"
    /\ Decode(ChatAdmin_from_dict(cin), ChatAdmin_from_dict(cmid))
    /\ UNCHANGED <<cdir, ccls, cin>>
    /\ UNCHANGED clientVars

CodecNext ==
    \/ EncodeUser \/ DecodeUser
    \/ EncodeUserWithPhoto \/ DecodeUserWithPhoto
    \/ DecodeChatMember
    \/ EncodeRecipient \/ DecodeRecipient
    \/ EncodeAttachment \/ DecodeAttachment
    \/ EncodeLocationAttachment \/ DecodeLocationAttachment
    \/ EncodeMessageStat \/ DecodeMessageStat
    \/ EncodeMessageBody \/ DecodeMessageBody
    \/ EncodeLinkedMessage \/ DecodeLinkedMessage
    \/ EncodeMessage \/ DecodeMessage
    \/ EncodeChat \/ DecodeChat
    \/ EncodeUpdate \/ DecodeUpdate
    \/ EncodeNewMessageBody \/ DecodeNewMessageBody
    \/ EncodeChatAdmin \/ DecodeChatAdmin

CodecSpec == CodecInit /\ [][CodecNext]_vars

----------------------------------------------------------------------------
(* The list operations: get_updates, get_chats, get_chat_members,
   get_chat_admins *)

\* a string built by ",".join(...) or an f-string, as its pieces
PText(pieces) == [t |-> "text", v |-> pieces]

\* str(i)
str(i) ==
    CASE i = 5 -> "5"
      [] i = 7 -> "7"
      [] i = 8 -> "8"

RECURSIVE join(_, _)
join(sep, items) ==
    IF items = <<>> THEN <<>>
    ELSE IF Len(items) = 1 THEN items
    ELSE <<Head(items), sep>> \o join(sep, Tail(items))

_should_use_models(as_models) == IF as_models = PNone THEN use_models ELSE as_models.v

get_updates_params_truthy_marker(limit, poll, marker, types) ==
    LET p0 == [limit |-> PInt(limit), timeout |-> PInt(poll)]
        p1 == IF Truthy(marker) THEN SetItem(p0, "marker", marker) ELSE p0
        p2 == IF types # PNone /\ types # <<>>
              THEN SetItem(p1, "types", PText(join(",", types))) ELSE p1
    IN  PDict(p2)

\* params of get_updates
get_updates_params(limit, poll, marker, types) ==
    LET p0 == [limit |-> PInt(limit), timeout |-> PInt(poll)]
        p1 == IF marker # PNone THEN SetItem(p0, "marker", marker) ELSE p0
        p2 == IF types # PNone /\ types # <<>>
              THEN SetItem(p1, "types", PText(join(",", types))) ELSE p1
    IN  PDict(p2)

\* params of get_chats
get_chats_params(count, marker) ==
    LET p0 == [count |-> PInt(count)]
    IN  PDict(IF marker # PNone THEN SetItem(p0, "marker", marker) ELSE p0)

\* params of get_chat_members
get_chat_members_params(count, marker, user_ids) ==
    LET p0 == [count |-> PInt(count)]
        p1 == IF marker # PNone THEN SetItem(p0, "marker", marker) ELSE p0
        p2 == IF user_ids # PNone /\ user_ids # <<>>
              THEN SetItem(p1, "user_ids",
                           PText(join(",", [i \in DOMAIN user_ids |-> str(user_ids[i])])))
              ELSE p1
    IN  PDict(p2)

\* params of get_messages
get_messages_params(chat_id, message_ids, from_timestamp, to_timestamp, count) ==
    LET p0 == [count |-> PInt(count)]
        p1 == IF chat_id # PNone THEN SetItem(p0, "chat_id", chat_id) ELSE p0
        p2 == IF message_ids # PNone /\ message_ids # <<>>
              THEN SetItem(p1, "message_ids", PText(join(",", message_ids))) ELSE p1
        p3 == IF from_timestamp # PNone THEN SetItem(p2, "from", from_timestamp) ELSE p2
        p4 == IF to_timestamp # PNone THEN SetItem(p3, "to", to_timestamp) ELSE p3
    IN  PDict(p4)

send_message_rejects_never(chat_id, user_id) == FALSE

\* if chat_id is None and user_id is None: raise ValueError(...)
send_message_rejects(chat_id, user_id) == chat_id = PNone /\ user_id = PNone

\* params of send_message
send_message_params(chat_id, user_id, disable_link_preview) ==
    LET p0 == EmptyMap
        p1 == IF user_id # PNone THEN SetItem(p0, "user_id", user_id) ELSE p0
        p2 == IF chat_id # PNone THEN SetItem(p1, "chat_id", chat_id) ELSE p1
        p3 == IF disable_link_preview # PNone
              THEN SetItem(p2, "disable_link_preview", disable_link_preview) ELSE p2
    IN  PDict(p3)

\* body of send_message
send_message_body(text, attachments, extra) ==
    LET b0 == EmptyMap
        b1 == IF text # PNone THEN SetItem(b0, "text", text) ELSE b0
        b2 == IF attachments # PNone THEN SetItem(b1, "attachments", attachments) ELSE b1
        b3 == IF Truthy(extra) THEN DictUpdate(b2, extra.v) ELSE b2
    IN  PDict(b3)

\* raw = data.get(key) or []
raw_list(data, key) == IF Truthy(Get(data, key)) THEN Get(data, key).v ELSE <<>>

\* {"marker": data.get("marker"), key: items}
list_result_no_marker(data, key, items) ==
    FirstRaise(items, PDict(SetItem([marker |-> PNone], key, PList(items))))

list_result(data, key, items) ==
    FirstRaise(items, PDict(SetItem([marker |-> Get(data, "marker")], key, PList(items))))

get_updates_result(as_models, data) ==
    IF IsRaise(data) THEN data
    ELSE IF _should_use_models(as_models) /\ IsMapping(data)
    THEN LET raw == raw_list(data, "updates")
         IN  list_result(data, "updates", [i \in DOMAIN raw |-> Update_from_dict(raw[i])])
    ELSE data

get_chats_result(as_models, data) ==
    IF IsRaise(data) THEN data
    ELSE IF _should_use_models(as_models) /\ IsMapping(data)
    THEN LET raw == raw_list(data, "chats")
         IN  list_result(data, "chats", [i \in DOMAIN raw |-> Chat_from_dict(raw[i])])
    ELSE data

get_chat_members_result(as_models, data) ==
    IF IsRaise(data) THEN data
    ELSE IF _should_use_models(as_models) /\ IsMapping(data)
    THEN LET raw == raw_list(data, "members")
         IN  list_result(data, "members", [i \in DOMAIN raw |-> ChatMember_from_dict(raw[i])])
    ELSE data

get_chat_admins_result(as_models, data) ==
    IF IsRaise(data) THEN data
    ELSE IF _should_use_models(as_models) /\ IsMapping(data)
    THEN LET raw == raw_list(data, "admins")
         IN  list_result(data, "admins", [i \in DOMAIN raw |-> ChatAdmin_from_dict(raw[i])])
    ELSE data

get_messages_result(as_models, data) ==
    IF IsRaise(data) THEN data
    ELSE IF _should_use_models(as_models) /\ IsMapping(data)
    THEN LET raw == raw_list(data, "messages")
             items == [i \in DOMAIN raw |-> Message_from_dict(raw[i])]
         IN  FirstRaise(items, PList(items))
    ELSE data

send_message_result(as_models, data) ==
    IF IsRaise(data) THEN data
    ELSE IF _should_use_models(as_models) /\ IsMapping(data)
            /\ IsMapping(Get(data, "message"))
    THEN Message_from_dict(Get(data, "message"))
    ELSE data

get_updates_call_poll_timeout(limit, poll, marker, types) ==
    [method |-> "GET", path |-> <<"/", "updates">>,
     params |-> get_updates_params(limit, poll, marker, types),
     json_body |-> PNone, timeout |-> PFloat(poll * 10)]

\* self._request("GET", "/updates", params=params)
get_updates_call(limit, poll, marker, types) ==
    [method |-> "GET", path |-> <<"/", "updates">>,
     params |-> get_updates_params(limit, poll, marker, types),
     json_body |-> PNone, timeout |-> PNone]

Limits == {100}
PollTimeouts == {30}
Counts == {50}
Markers == {PNone, PInt(0), PInt(17)}
TypeLists == {PNone, <<"message_created", "bot_started">>}
UserIdLists == {PNone, <<7, 8>>}
ChatIds == {5}
AsModels == {PNone, PBool(FALSE), PBool(TRUE)}
MessageIdLists == {PNone, <<"m1", "m2">>}
FromTimestamps == {PNone, PInt(1000)}
ToTimestamps == {PNone, PInt(2000)}
OptChatIds == {PNone, PInt(5)}
OptUserIds == {PNone, PInt(7)}
LinkPreviews == {PNone, PBool(TRUE)}
\* text and extra of a send_message call
MessageContents ==
    {[text |-> PNone, extra |-> PNone],
     [text |-> PStr("hi"), extra |-> PDict([notify |-> PBool(FALSE)])]}

\* the marker a caller finds in what an operation returned
returned_marker(res) ==
    IF res.t = "dict" /\ "marker" \in DOMAIN res.v THEN res.v["marker"] ELSE PNone

JsonHeaders == [k \in {"Content-Type"} |-> <<"application/json", "; charset=utf-8">>]
PlainHeaders == [k \in {"Content-Type"} |-> <<"text/plain">>]

ListResponses(texts) ==
    [status : {200, 404}, headers : {JsonHeaders},
     text : texts \cup {TextMarkerOnly, TextList, TextErrFull}]
    \cup [status : {200}, headers : {PlainHeaders}, text : {TextOk}]

\* a public operation up to and including the call of session.request
Invoke(name, as_models, args, c) ==
    /\ op' = [name |-> name, as_models |-> as_models, args |-> args]
    /\ call' = c
    /\ sent' = transport_request(c)
    /\ attempts' = 1
    /\ pc' = "waiting"
    /\ resp' = NoResponse
    /\ outcome' = NoOutcome
    /\ result' = NoOutcome

\* session.request returns r; _request classifies it and the operation
\* returns res
Return(r, res) ==
    /\ resp' = r
    /\ outcome' = request_result(r)
    /\ result' = res
    /\ last_marker' = returned_marker(res)
    /\ pc' = "idle"

GetUpdates ==
    /\ pc = "idle"
    /\ \E limit \in Limits, poll \in PollTimeouts, marker \in Markers,
          types \in TypeLists, as_models \in AsModels :
           Invoke("get_updates", as_models,
                  [limit |-> limit, timeout |-> poll, marker |-> marker, types |-> types],
                  get_updates_call(limit, poll, marker, types))
    /\ UNCHANGED <<access_token, base_url, timeout, use_models, last_marker>>
    /\ UNCHANGED codecVars

GetUpdatesReturn ==
    /\ pc = "waiting"
    /\ op.name = "get_updates"
    /\ \E r \in ListResponses({TextUpdates2, TextUpdatesEmpty, TextUpdatesNull}) :
           Return(r, get_updates_result(op.as_models, request_result(r)))
    /\ UNCHANGED <<access_token, base_url, timeout, call, sent, attempts, use_models, op>>
    /\ UNCHANGED codecVars

GetChats ==
    /\ pc = "idle"
    /\ \E count \in Counts, marker \in Markers, as_models \in AsModels :
           Invoke("get_chats", as_models, [count |-> count, marker |-> marker],
                  [method |-> "GET", path |-> <<"/", "chats">>,
                   params |-> get_chats_params(count, marker),
                   json_body |-> PNone, timeout |-> PNone])
    /\ UNCHANGED <<access_token, base_url, timeout, use_models, last_marker>>
    /\ UNCHANGED codecVars

GetChatsReturn ==
    /\ pc = "waiting"
    /\ op.name = "get_chats"
    /\ \E r \in ListResponses({TextChats2, TextChatsEmpty, TextChatsNull}) :
           Return(r, get_chats_result(op.as_models, request_result(r)))
    /\ UNCHANGED <<access_token, base_url, timeout, call, sent, attempts, use_models, op>>
    /\ UNCHANGED codecVars

GetChatMembers ==
    /\ pc = "idle"
    /\ \E chat_id \in ChatIds, user_ids \in UserIdLists, marker \in Markers,
          count \in Counts, as_models \in AsModels :
           Invoke("get_chat_members", as_models,
                  [chat_id |-> chat_id, user_ids |-> user_ids, marker |-> marker,
                   count |-> count],
                  [method |-> "GET",
                   path |-> <<"/", "chats", "/", str(chat_id), "/", "members">>,
                   params |-> get_chat_members_params(count, marker, user_ids),
                   json_body |-> PNone, timeout |-> PNone])
    /\ UNCHANGED <<access_token, base_url, timeout, use_models, last_marker>>
    /\ UNCHANGED codecVars

GetChatMembersReturn ==
    /\ pc = "waiting"
    /\ op.name = "get_chat_members"
    /\ \E r \in ListResponses({TextMembers2, TextMembersEmpty, TextMembersNull}) :
           Return(r,
                  get_chat_members_result(op.as_models, request_result(r)))
    /\ UNCHANGED <<access_token, base_url, timeout, call, sent, attempts, use_models, op>>
    /\ UNCHANGED codecVars

GetChatAdmins ==
    /\ pc = "idle"
    /\ \E chat_id \in ChatIds, as_models \in AsModels :
           Invoke("get_chat_admins", as_models, [chat_id |-> chat_id],
                  [method |-> "GET",
                   path |-> <<"/", "chats", "/", str(chat_id), "/", "members", "/", "admins">>,
                   params |-> PNone, json_body |-> PNone, timeout |-> PNone])
    /\ UNCHANGED <<access_token, base_url, timeout, use_models, last_marker>>
    /\ UNCHANGED codecVars

GetChatAdminsReturn ==
    /\ pc = "waiting"
    /\ op.name = "get_chat_admins"
    /\ \E r \in ListResponses({TextAdmins2, TextAdminsEmpty, TextAdminsNull}) :
           Return(r,
                  get_chat_admins_result(op.as_models, request_result(r)))
    /\ UNCHANGED <<access_token, base_url, timeout, call, sent, attempts, use_models, op>>
    /\ UNCHANGED codecVars

GetMessages ==
    /\ pc = "idle"
    /\ \E chat_id \in OptChatIds, message_ids \in MessageIdLists,
          from_timestamp \in FromTimestamps, to_timestamp \in ToTimestamps,
          count \in Counts, as_models \in AsModels :
           Invoke("get_messages", as_models,
                  [chat_id |-> chat_id, message_ids |-> message_ids,
                   from_timestamp |-> from_timestamp, to_timestamp |-> to_timestamp,
                   count |-> count],
                  [method |-> "GET", path |-> <<"/", "messages">>,
                   params |-> get_messages_params(chat_id, message_ids, from_timestamp,
                                                  to_timestamp, count),
                   json_body |-> PNone, timeout |-> PNone])
    /\ UNCHANGED <<access_token, base_url, timeout, use_models, last_marker>>
    /\ UNCHANGED codecVars

GetMessagesReturn ==
    /\ pc = "waiting"
    /\ op.name = "get_messages"
    /\ \E r \in ListResponses({TextMessages2, TextMessagesEmpty}) :
           Return(r, get_messages_result(op.as_models, request_result(r)))
    /\ UNCHANGED <<access_token, base_url, timeout, call, sent, attempts, use_models, op>>
    /\ UNCHANGED codecVars

\* send_message with neither chat_id nor user_id: ValueError, and _request is
\* not called
SendMessageRejected ==
    /\ pc = "idle"
    /\ \E chat_id \in OptChatIds, user_id \in OptUserIds, content \in MessageContents,
          disable_link_preview \in LinkPreviews, as_models \in AsModels :
           /\ send_message_rejects(chat_id, user_id)
           /\ op' = [name |-> "send_message", as_models |-> as_models,
                     args |-> [chat_id |-> chat_id, user_id |-> user_id,
                               text |-> content.text, attachments |-> PNone,
                               disable_link_preview |-> disable_link_preview,
                               extra |-> content.extra]]
    /\ result' = Raise("ValueError", "chat_id or user_id")
    /\ call' = NoCall
    /\ sent' = NoRequest
    /\ attempts' = 0
    /\ resp' = NoResponse
    /\ outcome' = NoOutcome
    /\ pc' = "idle"
    /\ UNCHANGED <<access_token, base_url, timeout, use_models, last_marker>>
    /\ UNCHANGED codecVars

SendMessage ==
    /\ pc = "idle"
    /\ \E chat_id \in OptChatIds, user_id \in OptUserIds, content \in MessageContents,
          disable_link_preview \in LinkPreviews, as_models \in AsModels :
           /\ ~send_message_rejects(chat_id, user_id)
           /\ Invoke("send_message", as_models,
                     [chat_id |-> chat_id, user_id |-> user_id,
                      text |-> content.text, attachments |-> PNone,
                      disable_link_preview |-> disable_link_preview,
                      extra |-> content.extra],
                     [method |-> "POST", path |-> <<"/", "messages">>,
                      params |-> send_message_params(chat_id, user_id,
                                                     disable_link_preview),
                      json_body |-> send_message_body(content.text, PNone, content.extra),
                      timeout |-> PNone])
    /\ UNCHANGED <<access_token, base_url, timeout, use_models, last_marker>>
    /\ UNCHANGED codecVars

SendMessageReturn ==
    /\ pc = "waiting"
    /\ op.name = "send_message"
    /\ \E r \in ListResponses({TextSent, TextEmptyObj}) :
           Return(r, send_message_result(op.as_models, request_result(r)))
    /\ UNCHANGED <<access_token, base_url, timeout, call, sent, attempts, use_models, op>>
    /\ UNCHANGED codecVars

ApiInit == ClientInit /\ use_models \in BOOLEAN /\ CodecOff

ApiNext ==
    \/ GetUpdates \/ GetUpdatesReturn
    \/ GetChats \/ GetChatsReturn
    \/ GetChatMembers \/ GetChatMembersReturn
    \/ GetChatAdmins \/ GetChatAdminsReturn
    \/ GetMessages \/ GetMessagesReturn
    \/ SendMessageRejected \/ SendMessage \/ SendMessageReturn
    \/ RequestTransportFails

ApiSpec == ApiInit /\ [][ApiNext]_vars

----------------------------------------------------------------------------
(* Properties of the request executor *)

IsApiError(x) == x.t = "raise" /\ x.exc = "MaxAPIError"
Answered == pc = "idle" /\ resp # NoResponse
DeclaresJson(r) ==
    "Content-Type" \in DOMAIN r.headers
    /\ \E i \in DOMAIN r.headers["Content-Type"] :
          r.headers["Content-Type"][i] = "application/json"

\* C1: the access_token query parameter handed to the transport is always the
\* client's own access token, whatever parameters the caller passed.
C1_TokenNeverOverridden ==
    sent # NoRequest => Subscript(sent.params, "access_token") = access_token

\* C2 (as stated): every status outside 200..299 ends in MaxAPIError, and a
\* payload is returned only for a status in 200..299.
C2_NonSuccessStatusFails ==
    Answered =>
        /\ resp.status \notin 200..299 => IsApiError(outcome)
        /\ ~IsRaise(outcome) => resp.status \in 200..299

\* C2 (amended): every status in 400..599 ends in MaxAPIError, with or without
\* a JSON body, and a payload is returned only for a status outside 400..599.
C2_ErrorStatusFails ==
    Answered =>
        /\ resp.status \in 400..599 => IsApiError(outcome)
        /\ ~IsRaise(outcome) => resp.status \notin 400..599

C2_Witness ==
    /\ Answered
    /\ resp.status = 404
    /\ ~DeclaresJson(resp)
    /\ IsApiError(outcome)

\* C3: a raised MaxAPIError carries the response status; with a parsed body
\* that is a mapping it carries the body's code and message (null when absent)
\* and the whole mapping as details; otherwise the three are null.
C3_ErrorFields ==
    (Answered /\ IsApiError(outcome)) =>
        LET d == parse_data(resp)
        IN  /\ outcome.status_code = resp.status
            /\ IsMapping(d) =>
                /\ outcome.error_code =
                      (IF "code" \in DOMAIN d.v THEN d.v["code"] ELSE PNone)
                /\ outcome.message =
                      (IF "message" \in DOMAIN d.v THEN d.v["message"] ELSE PNone)
                /\ outcome.details = d
            /\ ~IsMapping(d) =>
                /\ outcome.error_code = PNone
                /\ outcome.message = PNone
                /\ outcome.details = PNone
            /\ (resp.status = 404 /\ DeclaresJson(resp) /\ resp.text = TextErrFull) =>
                /\ outcome.status_code = 404
                /\ outcome.error_code = PStr("chat_not_found")
                /\ outcome.message = PStr("no such chat")

C3_Witness ==
    /\ Answered
    /\ resp.status = 404
    /\ DeclaresJson(resp)
    /\ resp.text = TextErrFull
    /\ IsApiError(outcome)
    /\ outcome.error_code = PStr("chat_not_found")

\* C4: a body that declares JSON and does not parse is no failure of its own:
\* an error status raises MaxAPIError with the status and null code, message
\* and details, and a 2xx status returns the raw text.
C4_UnparseableJson ==
    (Answered /\ DeclaresJson(resp) /\ IsRaise(json(resp.text))) =>
        /\ ~(IsRaise(outcome) /\ outcome.exc = "ValueError")
        /\ resp.status \in 400..599 =>
            /\ IsApiError(outcome)
            /\ outcome.status_code = resp.status
            /\ outcome.error_code = PNone
            /\ outcome.message = PNone
            /\ outcome.details = PNone
        /\ resp.status \in 200..299 => outcome = PStr(resp.text)

C4_Witness ==
    /\ Answered
    /\ DeclaresJson(resp)
    /\ resp.text = TextOk
    /\ resp.status = 500
    /\ IsApiError(outcome)
    /\ outcome.details = PNone

\* C5: a 2xx response whose content type is not JSON yields the response text
\* itself, also when that text is valid JSON.
C5_TextForNonJson ==
    (Answered /\ resp.status \in 200..299 /\ ~DeclaresJson(resp)) =>
        outcome = PStr(resp.text)

C5_Witness ==
    /\ Answered
    /\ resp.status = 200
    /\ content_type(resp) = <<"text/plain">>
    /\ resp.text = TextQuotedOk
    /\ outcome = PStr(TextQuotedOk)

----------------------------------------------------------------------------
(* Properties of the codec *)

RoundTripDone == cpc = "done" /\ cdir = "ede"
ReEncodeDone == cpc = "done" /\ cdir = "ded"

\* C6: every User, UserWithPhoto and ChatMember value comes back from
\* from_dict(to_dict(e)) unchanged, and for a mapping the three decoders accept,
\* UserWithPhoto.from_dict and ChatMember.from_dict give the User fields that
\* User.from_dict gives.
C6_UserChainRoundTrip ==
    /\ (RoundTripDone /\ ccls \in {"User", "UserWithPhoto", "ChatMember"}) => cout = cin
    /\ (/\ cpc # "start"
        /\ cdir = "ded"
        /\ ccls \in {"UserWithPhoto", "ChatMember"}
        /\ User_required \subseteq DOMAIN cin.v
        /\ ccls = "ChatMember" => ChatMember_own_required \subseteq DOMAIN cin.v)
       => /\ cmid.t = "obj"
          /\ cmid.cls = ccls
          /\ \A k \in User_required \cup User_optional :
                cmid.v[k] = User_from_dict(cin).v[k]

\* C7 (as stated): every Attachment and LocationAttachment value comes back
\* from its own class's from_dict(to_dict(x)) unchanged.
C7_AttachmentRoundTrip ==
    (RoundTripDone /\ ccls \in {"Attachment", "LocationAttachment"}) => cout = cin

HasPoint(payload, lat, lon) ==
    /\ payload.t = "dict"
    /\ {"latitude", "longitude"} \subseteq DOMAIN payload.v
    /\ payload.v["latitude"] = lat
    /\ payload.v["longitude"] = lon

\* C7 (amended): an Attachment comes back unchanged; a LocationAttachment is
\* encoded with its discriminator and a payload holding its latitude and
\* longitude, and comes back with the same type, latitude and longitude and
\* with its payload plus those two keys, so it comes back unchanged exactly
\* when its payload already held latitude and longitude equal to its fields.
C7_AttachmentRoundTripCanonical ==
    RoundTripDone =>
        /\ ccls = "Attachment" => cout = cin
        /\ ccls = "LocationAttachment" =>
            /\ cmid.t = "dict"
            /\ DOMAIN cmid.v = {"type", "payload"}
            /\ cmid.v["type"] = cin.v.type
            /\ HasPoint(cmid.v["payload"], cin.v.latitude, cin.v.longitude)
            /\ cout.t = "obj"
            /\ cout.cls = "LocationAttachment"
            /\ cout.v.type = cin.v.type
            /\ cout.v.latitude = cin.v.latitude
            /\ cout.v.longitude = cin.v.longitude
            /\ HasPoint(cout.v.payload, cin.v.latitude, cin.v.longitude)
            /\ cin.v.payload.t = "dict" =>
                /\ DOMAIN cout.v.payload.v =
                      DOMAIN cin.v.payload.v \cup {"latitude", "longitude"}
                /\ \A k \in DOMAIN cin.v.payload.v \ {"latitude", "longitude"} :
                      cout.v.payload.v[k] = cin.v.payload.v[k]
            /\ cin.v.payload = PNone =>
                DOMAIN cout.v.payload.v = {"latitude", "longitude"}
            /\ (cout = cin) <=> HasPoint(cin.v.payload, cin.v.latitude, cin.v.longitude)

C7_Witness ==
    /\ RoundTripDone
    /\ ccls = "LocationAttachment"
    /\ cin.v.payload = PayloadPointZoom
    /\ cin.v.latitude = PFloat(15)
    /\ cin.v.longitude = PFloat(25)
    /\ cout = cin

\* C8: every Message, MessageBody, LinkedMessage and Chat value, also one whose
\* attachments hold LocationAttachment elements, comes back from
\* from_dict(to_dict(e)) unchanged.
C8_MessageRoundTrip ==
    (RoundTripDone /\ ccls \in {"Message", "MessageBody", "LinkedMessage", "Chat"})
        => cout = cin

\* C9: a mapping with update_type and timestamp and any other keys is decoded
\* by Update.from_dict and encoded back by to_dict to exactly the same mapping.
C9_UpdatePassThrough ==
    (/\ cdir = "ded"
     /\ ccls = "Update"
     /\ {"update_type", "timestamp"} \subseteq DOMAIN cin.v)
    => /\ cpc # "start" => ~IsRaise(cmid)
       /\ cpc = "done" => cout = cin

C9_Witness ==
    /\ ReEncodeDone
    /\ ccls = "Update"
    /\ {"message", "user_locale"} \subseteq DOMAIN cin.v
    /\ cin.v["user_locale"] = PNone
    /\ cout = cin

\* C10 (as stated): for every entity, a mapping its decoder accepts is
\* reproduced exactly by to_dict(from_dict(j)), also with optional keys absent.
C10_DecodeEncodeExact == ReEncodeDone => cout = cin

FlatKeys(c) ==
    CASE c = "User" -> User_required \cup User_optional
      [] c = "UserWithPhoto" -> User_required \cup UserWithPhoto_optional
      [] c = "Recipient" -> Recipient_required \cup Recipient_optional

\* C10 (amended): for User, UserWithPhoto and Recipient, to_dict(from_dict(j))
\* has exactly the entity's field keys, agrees with j on each of them that j
\* has and holds null for each optional key j lacks; it equals j exactly when
\* j has every field key of the entity and no other key.
C10_DecodeEncodeFields ==
    (ReEncodeDone /\ ccls \in {"User", "UserWithPhoto", "Recipient"}) =>
        /\ cout.t = "dict"
        /\ DOMAIN cout.v = FlatKeys(ccls)
        /\ \A k \in FlatKeys(ccls) :
              cout.v[k] = (IF k \in DOMAIN cin.v THEN cin.v[k] ELSE PNone)
        /\ (cout = cin) <=> (DOMAIN cin.v = FlatKeys(ccls))

C10_Witness ==
    /\ ReEncodeDone
    /\ ccls = "User"
    /\ "username" \notin DOMAIN cin.v
    /\ "name" \in DOMAIN cin.v
    /\ cin.v["name"] # PNone
    /\ cout.v["username"] = PNone
    /\ cout.v["name"] = cin.v["name"]

Decoded == cpc # "start" /\ cdir = "ded"
Encoded == cpc # "start" /\ cdir = "ede"

LocationDict == PDict([type |-> PStr("location"), payload |-> PayloadPoint])

IsLocationEntity(x) ==
    /\ x.t = "obj"
    /\ x.cls = "LocationAttachment"
    /\ x.v.latitude = PFloat(15)
    /\ x.v.longitude = PFloat(25)

\* C11: the mapping with type "location" and payload {latitude: 1.5,
\* longitude: 2.5} decodes to a LocationAttachment with latitude 1.5 and
\* longitude 2.5, as an attachment on its own and as any element of the
\* attachments of a MessageBody, and encoding the decoded value gives the same
\* payload back.
C11_LocationDispatch ==
    /\ (Decoded /\ ccls = "Attachment" /\ cin = LocationDict) =>
          /\ IsLocationEntity(cmid)
          /\ cpc = "done" => cout = cin
    /\ (/\ Decoded
        /\ ccls = "MessageBody"
        /\ {"mid", "seq", "attachments"} \subseteq DOMAIN cin.v
        /\ cin.v["attachments"].t = "list") =>
          /\ cmid.t = "obj"
          /\ Len(cmid.v.attachments.v) = Len(cin.v["attachments"].v)
          /\ \A i \in 1..Len(cin.v["attachments"].v) :
                cin.v["attachments"].v[i] = LocationDict
                    => IsLocationEntity(cmid.v.attachments.v[i])

KnownAttachmentTypes == {PStr("location")}

\* C12: a mapping whose type is not a known variant always decodes, to a base
\* Attachment with that same type and with the payload exactly as given (None
\* when the mapping has none).
C12_UnknownVariant ==
    (/\ Decoded
     /\ ccls = "Attachment"
     /\ "type" \in DOMAIN cin.v
     /\ cin.v["type"] \notin KnownAttachmentTypes)
    => /\ cmid.t = "obj"
       /\ cmid.cls = "Attachment"
       /\ cmid.v.type = cin.v["type"]
       /\ cmid.v.payload = (IF "payload" \in DOMAIN cin.v THEN cin.v["payload"] ELSE PNone)

C12_Witness ==
    /\ Decoded
    /\ ccls = "Attachment"
    /\ cin = PDict([type |-> PStr("hologram"), payload |-> PayloadUrl])
    /\ cmid = PObj("Attachment", [type |-> PStr("hologram"), payload |-> PayloadUrl])

\* C13: the mapping LocationAttachment.to_dict gives has a payload whose
\* latitude and longitude are the entity's latitude and longitude fields, also
\* when the entity's payload holds other values for them, and every other key
\* of the entity's payload is in it with its value.
C13_LocationFieldsWin ==
    (Encoded /\ ccls = "LocationAttachment") =>
        /\ cmid.t = "dict"
        /\ "payload" \in DOMAIN cmid.v
        /\ HasPoint(cmid.v["payload"], cin.v.latitude, cin.v.longitude)
        /\ cin.v.payload.t = "dict" =>
              \A k \in DOMAIN cin.v.payload.v \ {"latitude", "longitude"} :
                  /\ k \in DOMAIN cmid.v["payload"].v
                  /\ cmid.v["payload"].v[k] = cin.v.payload.v[k]

C13_Witness ==
    /\ Encoded
    /\ ccls = "LocationAttachment"
    /\ cin.v.payload = PayloadPointZoom
    /\ cin.v.latitude = PFloat(0)
    /\ cin.v.longitude = PFloat(25)
    /\ cmid.v["payload"] =
          PDict(SetItem(PayloadPointZoom.v, "latitude", PFloat(0)))

Chat_required ==
    {"chat_id", "type", "status", "last_event_time", "participants_count", "is_public"}

\* C17: a Chat mapping with every required key and no participants key
\* decodes, and the decoded Chat has participants None, not an empty map.
C17_ParticipantsAbsent ==
    (/\ Decoded
     /\ ccls = "Chat"
     /\ Chat_required \subseteq DOMAIN cin.v
     /\ "participants" \notin DOMAIN cin.v)
    => /\ cmid.t = "obj"
       /\ cmid.cls = "Chat"
       /\ cmid.v.participants = PNone

C17_Witness ==
    /\ Decoded
    /\ ccls = "Chat"
    /\ Chat_required \subseteq DOMAIN cin.v
    /\ "participants" \notin DOMAIN cin.v
    /\ "title" \in DOMAIN cin.v
    /\ cin.v["title"] # PNone
    /\ cmid.t = "obj"
    /\ cmid.v.participants = PNone
    /\ cmid.v.title = cin.v["title"]

\* the keys each from_dict reads with data[...]
RequiredKeys(c) ==
    CASE c \in {"User", "UserWithPhoto"} -> User_required
      [] c = "ChatMember" -> User_required \cup ChatMember_own_required
      [] c = "Recipient" -> Recipient_required
      [] c \in {"Attachment", "LocationAttachment"} -> {"type"}
      [] c = "MessageStat" -> {"views"}
      [] c = "MessageBody" -> {"mid", "seq"}
      [] c = "NewMessageBody" -> {}
      [] c = "LinkedMessage" -> {"type", "chat_id", "message"}
      [] c = "Message" -> {"recipient", "body", "timestamp"}
      [] c = "Chat" -> Chat_required
      [] c = "ChatAdmin" -> {"user_id"}
      [] c = "Update" -> {"update_type", "timestamp"}

MissingKeys == RequiredKeys(ccls) \ DOMAIN cin.v

\* the declared shapes of the required fields of User
User_shape ==
    [user_id |-> "int", first_name |-> "str", is_bot |-> "bool",
     last_activity_time |-> "int"]

WrongShapeUser ==
    /\ ccls = "User"
    /\ MissingKeys = {}
    /\ \E k \in User_required : cin.v[k].t # User_shape[k]

DecodersDefined ==
    {"User", "UserWithPhoto", "Recipient", "Attachment", "LocationAttachment",
     "MessageStat", "MessageBody", "NewMessageBody", "LinkedMessage", "Message",
     "Chat", "ChatAdmin", "Update"}

SequenceFields(c) ==
    CASE c \in {"MessageBody", "NewMessageBody"} -> {"attachments"}
      [] c = "ChatAdmin" -> {"permissions"}
      [] OTHER -> {}

DocumentedDefaults(c) == IF c = "NewMessageBody" THEN {"notify"} ELSE {}

DerivedFields(c) ==
    CASE c = "Update" -> {"payload"}
      [] c = "LocationAttachment" -> {"latitude", "longitude"}
      [] OTHER -> {}

PayloadLacks(k) ==
    \/ "payload" \notin DOMAIN cin.v
    \/ cin.v["payload"].t # "dict"
    \/ k \notin DOMAIN cin.v["payload"].v

\* C15: in every decoded entity a field whose key is absent from the mapping
\* is None, never 0, 0.0, "" or an empty map; the latitude and longitude of a
\* LocationAttachment are None when the payload does not hold them; the one
\* exception is notify of NewMessageBody, which is true when absent.
C15_AbsentIsNone ==
    (Decoded /\ cmid.t = "obj") =>
        /\ \A k \in DOMAIN cmid.v \ (SequenceFields(ccls) \cup DocumentedDefaults(ccls)
                                        \cup DerivedFields(ccls)) :
              k \notin DOMAIN cin.v => cmid.v[k] = PNone
        /\ ccls = "LocationAttachment" =>
              \A k \in {"latitude", "longitude"} : PayloadLacks(k) => cmid.v[k] = PNone
        /\ (ccls = "NewMessageBody" /\ "notify" \notin DOMAIN cin.v) =>
              cmid.v.notify = PBool(TRUE)

Sending == sent # NoRequest

\* the path without its leading separator
Resource(path) ==
    IF path # <<>> /\ path[1] = "/" THEN SubSeq(path, 2, Len(path)) ELSE path

\* C18: whether or not the path passed to _request starts with a separator,
\* the URL given to the transport is the client's base endpoint (which ends
\* with no separator), one separator, and the path without its leading
\* separator.
C18_UrlOneSeparator ==
    Sending =>
        /\ base_url[Len(base_url)] # "/"
        /\ sent.url = base_url \o <<"/">> \o Resource(call.path)

C18_Witness ==
    /\ Sending
    /\ call.path = <<"/", "me">>
    /\ sent.url = DEFAULT_BASE_URL \o <<"/", "me">>

\* C19: the timeout given to the transport is the timeout argument of the
\* call when it is not None (0 included), otherwise the client's timeout, and
\* None when both are None.
C19_TimeoutResolution ==
    Sending =>
        /\ call.timeout # PNone => sent.timeout = call.timeout
        /\ call.timeout = PNone => sent.timeout = timeout
        /\ (call.timeout = PNone /\ timeout = PNone) => sent.timeout = PNone

C19_Witness ==
    /\ Sending
    /\ call.timeout = PFloat(0)
    /\ timeout = PFloat(100)
    /\ sent.timeout = PFloat(0)

\* C20: an invocation of _request calls session.request once, and once only
\* whether it ends with a value, with MaxAPIError or with the transport's
\* exception.
C20_NoRetry ==
    /\ attempts <= 1
    /\ pc = "waiting" => attempts = 1
    /\ outcome # NoOutcome => attempts = 1

C20_Witness ==
    /\ pc = "idle"
    /\ outcome = Raise("Timeout", "transport")
    /\ attempts = 1

----------------------------------------------------------------------------
(* Properties of the list operations *)

ModelMode == (op.as_models = PNone /\ use_models) \/ op.as_models = PBool(TRUE)

ListKey ==
    CASE op.name = "get_updates" -> "updates"
      [] op.name = "get_chats" -> "chats"
      [] op.name = "get_chat_members" -> "members"
      [] op.name = "get_chat_admins" -> "admins"

ElementClass ==
    CASE op.name = "get_updates" -> "Update"
      [] op.name = "get_chats" -> "Chat"
      [] op.name = "get_chat_members" -> "ChatMember"
      [] op.name = "get_chat_admins" -> "ChatAdmin"

ElementId ==
    CASE op.name = "get_updates" -> "timestamp"
      [] op.name = "get_chats" -> "chat_id"
      [] OTHER -> "user_id"

\* the source sequence of the parsed body: empty when null or absent
SourceItems ==
    IF ListKey \in DOMAIN outcome.v /\ outcome.v[ListKey].t = "list"
    THEN outcome.v[ListKey].v ELSE <<>>

ListReturned ==
    /\ pc = "idle"
    /\ op.name \in {"get_updates", "get_chats", "get_chat_members", "get_chat_admins"}
    /\ ModelMode
    /\ outcome.t = "dict"

\* C16: in model mode a list operation whose response body is a mapping
\* returns, under the list's key, a sequence with one decoded entity for each
\* element of the body's sequence, in the same order; when the body's
\* sequence is empty, null or absent the returned sequence is empty.
C16_SequencesDecoded ==
    ListReturned =>
        /\ result.t = "dict"
        /\ ListKey \in DOMAIN result.v
        /\ result.v[ListKey].t = "list"
        /\ Len(result.v[ListKey].v) = Len(SourceItems)
        /\ \A i \in 1..Len(SourceItems) :
              /\ result.v[ListKey].v[i].t = "obj"
              /\ result.v[ListKey].v[i].cls = ElementClass
              /\ result.v[ListKey].v[i].v[ElementId] = SourceItems[i].v[ElementId]

----------------------------------------------------------------------------
(* Further properties of the request executor *)

TransportFailed == pc = "idle" /\ attempts = 1 /\ resp = NoResponse

\* C21: when session.request raises, _request ends with that exception
\* itself, which is no MaxAPIError and has no status code, and returns no
\* value.
C21_TransportFailureAsIs ==
    TransportFailed =>
        /\ outcome.t = "raise"
        /\ outcome.exc \in TransportErrors
        /\ outcome.exc # "MaxAPIError"
        /\ "status_code" \notin DOMAIN outcome

C21_Witness ==
    /\ TransportFailed
    /\ outcome = Raise("ConnectionError", "transport")

\* C22: no step of the client changes its access token, base URL or default
\* timeout.
C22_CredentialsUnchanged ==
    [][/\ access_token' = access_token
       /\ base_url' = base_url
       /\ timeout' = timeout]_vars

C22_Witness ==
    /\ Answered
    /\ IsApiError(outcome)
    /\ call.timeout = PFloat(50)
    /\ access_token = Token
    /\ base_url = DEFAULT_BASE_URL
    /\ timeout = PFloat(100)

----------------------------------------------------------------------------
(* Further properties of the codec *)

ReservedKeys == {"update_type", "timestamp"}

\* C28: the payload of an Update made by Update.from_dict holds neither
\* update_type nor timestamp; the mapping Update.to_dict gives holds the
\* entity's update_type and timestamp whatever its payload holds under those
\* keys; and from_dict(to_dict(u)) is u exactly when u's payload holds neither
\* key.
C28_ReservedKeys ==
    /\ (Decoded /\ ccls = "Update" /\ cmid.t = "obj") =>
          ReservedKeys \cap DOMAIN cmid.v.payload.v = {}
    /\ (Encoded /\ ccls = "Update") =>
          /\ cmid.v["update_type"] = cin.v.update_type
          /\ cmid.v["timestamp"] = cin.v.timestamp
    /\ (RoundTripDone /\ ccls = "Update") =>
          /\ cout.t = "obj"
          /\ ReservedKeys \cap DOMAIN cout.v.payload.v = {}
          /\ (cout = cin) <=> (ReservedKeys \cap DOMAIN cin.v.payload.v = {})

C28_Witness ==
    /\ RoundTripDone
    /\ ccls = "Update"
    /\ cin.v.payload = PDict([update_type |-> PStr("stale")])
    /\ cmid.v["update_type"] = PStr("message_created")
    /\ cout.v.payload = PDict(EmptyMap)
    /\ cout # cin

----------------------------------------------------------------------------
(* Further properties of the operations *)

MarkerOps == {"get_updates", "get_chats", "get_chat_members"}

\* the marker of a mapping, None when it has none
MarkerOf(x) == IF "marker" \in DOMAIN x.v THEN x.v["marker"] ELSE PNone

PageReturned ==
    /\ pc = "idle"
    /\ op.name = "get_updates"
    /\ op.args.marker # PNone
    /\ outcome.t = "dict"
    /\ result.t = "dict"
    /\ "updates" \in DOMAIN result.v
    /\ result.v["updates"].t = "list"
    /\ result.v["updates"].v # <<>>

\* C24 (as stated): a get_updates call with marker M that returns a non-empty
\* page returns a marker different from M or no marker.
C24_NewMarker == PageReturned => MarkerOf(result) # op.args.marker

\* C24 (amended): a get_updates call with marker M that returns a non-empty
\* page, in raw or model mode, returns the marker of the response body as it
\* is, so the returned marker differs from M exactly when the body's does; and
\* the call made one request.
C24_MarkerOfResponse ==
    PageReturned =>
        /\ MarkerOf(result) = MarkerOf(outcome)
        /\ (MarkerOf(result) # op.args.marker) <=> (MarkerOf(outcome) # op.args.marker)
        /\ attempts = 1

C24_Witness ==
    /\ PageReturned
    /\ ModelMode
    /\ op.args.marker = PInt(17)
    /\ resp.text = TextUpdates2
    /\ MarkerOf(result) = PInt(17)

\* C25: every request an operation hands to the transport has the client's
\* token as its access_token query parameter, and has it nowhere else: the
\* transport gets a method, a URL, the query, a JSON body and a timeout, and
\* neither the URL nor the body holds the token.
C25_TokenInQueryOnly ==
    Sending =>
        /\ "access_token" \in DOMAIN sent.params.v
        /\ sent.params.v["access_token"] = access_token
        /\ \A k \in DOMAIN sent.params.v \ {"access_token"} :
              sent.params.v[k] # access_token
        /\ DOMAIN sent = {"method", "url", "params", "json", "timeout"}
        /\ \A i \in DOMAIN sent.url : sent.url[i] # access_token.v
        /\ sent.json.t = "dict" =>
              \A k \in DOMAIN sent.json.v : sent.json.v[k] # access_token

C25_Witness ==
    /\ Sending
    /\ op.name = "send_message"
    /\ sent.json = PDict([text |-> PStr("hi"), notify |-> PBool(FALSE)])
    /\ sent.params = PDict([chat_id |-> PInt(5), access_token |-> Token])

\* C26: a get_messages call with message_ids sends no from, to or count
\* parameter.
C26_IdsWithoutFilters ==
    (/\ op.name = "get_messages"
     /\ op.args.message_ids # PNone
     /\ op.args.message_ids # <<>>)
    => /\ "message_ids" \in DOMAIN sent.params.v
       /\ {"from", "to", "count"} \cap DOMAIN sent.params.v = {}

\* the identifiers given to send_message
GivenIds == {k \in {"chat_id", "user_id"} : op.args[k] # PNone}

\* C27: send_message with neither chat_id nor user_id raises ValueError
\* without a request: the transport is not called and the client is as it
\* was; with at least one of them the request's query holds exactly the given
\* identifiers, with their values.
C27_SendMessageIds ==
    op.name = "send_message" =>
        /\ GivenIds = {} =>
              /\ pc = "idle"
              /\ result = Raise("ValueError", "chat_id or user_id")
              /\ sent = NoRequest
              /\ attempts = 0
              /\ outcome = NoOutcome
        /\ GivenIds # {} =>
              /\ attempts = 1
              /\ sent # NoRequest
              /\ DOMAIN sent.params.v \cap {"chat_id", "user_id"} = GivenIds
              /\ \A k \in GivenIds : sent.params.v[k] = op.args[k]

C27_Witness ==
    /\ op.name = "send_message"
    /\ GivenIds = {}
    /\ result.t = "raise"
    /\ result.exc = "ValueError"
    /\ sent = NoRequest
    /\ last_marker = PInt(17)

\* C30: get_updates sends its timeout argument as the timeout query parameter
\* and gives the transport the client's timeout, never the argument; with the
\* defaults (30 s and 10 s) the call can end with the transport's Timeout.
C30_LongPollTimeout ==
    op.name = "get_updates" =>
        /\ sent.params.v["timeout"] = PInt(op.args.timeout)
        /\ call.timeout = PNone
        /\ sent.timeout = timeout

C30_Witness ==
    /\ pc = "idle"
    /\ op.name = "get_updates"
    /\ op.args.timeout = 30
    /\ timeout = PFloat(100)
    /\ sent.timeout = PFloat(100)
    /\ result = Raise("Timeout", "transport")

====
